---- MODULE Spec2Model ----
(***************************************************************************)
(* Process identity and lifecycle tracking engine of the vendored pypsutil *)
(* package (src/packages/pypsutil): Process handles, is_running, wait,     *)
(* wait_procs and the oneshot cache, against a model of the operating      *)
(* system's process table.                                                 *)
(***************************************************************************)
EXTENDS Integers, Sequences, FiniteSets, TLC

(***************************************************************************)
(* Bounds of the model.                                                    *)
(***************************************************************************)
\* creation timestamps 1..MaxGen: a pid is recycled at most MaxGen - 1 times
MaxGen == 2
\* top-level calls the callers make in all
MaxCalls == 3
\* calls of wait_procs its caller makes
MaxProcsCalls == 1
\* largest positive timeout, in clock ticks
MaxTimeout == 3
\* with-blocks of oneshot a thread nests
MaxDepth == 2
\* enumeration passes started
MaxPasses == 2

\* time.sleep(0.01) of the polling loops, in clock ticks
Interval == 2

Threads == {1, 2}
Pids == {1, 2}
Handles == {1, 2}

\* Optional[int]: None is the empty set, a value v is {v}
None == {}
Some(v) == {v}
TheVal(o) == CHOOSE v \in o : TRUE

\* wait statuses the kernel hands to waitpid: exit(0) and death by SIGKILL
WStatuses == {0, 9}

VARIABLES
    worksOnZombies, \* pid_raw_create_time.works_on_zombies of the platform
    pid0,           \* what the platform's pid_raw_create_time raises for pid 0:
                    \* "" when it reports a process
    now,            \* time.monotonic(), in ticks
    os,             \* process table: pid -> [st, ct, child, wstatus, denied]
    gen,            \* creation timestamps handed out so far, per pid
    hpid,           \* Process._pid
    hrct,           \* Process._raw_create_time
    hdead,          \* Process._dead
    hexit,          \* Process._exitcode
    lock,           \* Process._lock: owning thread, 0 when free
    elock,          \* Process._exitcode_lock: owning thread, 0 when free
    th,             \* per thread: the frames of is_running and wait
    calls,          \* top-level calls made so far
    wp,             \* the frame of wait_procs
    hret,           \* the returncode attribute wait_procs sets: {} while unset
    hproc,          \* the creation timestamp of the process a handle was made for;
                    \* 0 while the handle is not constructed
    data,           \* Process._cache_storage.data, per handle and thread
    itercache,      \* _process_iter_cache: pid -> the handle kept for it
    it,             \* per thread: the frame of _process_iter_impl
    everFalse,      \* history: is_running has returned False on the handle
    deadRets        \* history: values wait returned for a handle found dead

osvars == <<worksOnZombies, pid0, now, os, gen>>
hvars == <<hpid, hrct, hdead, hexit, lock, elock>>
histvars == <<everFalse, deadRets>>
\* everything the program owns
\* what the operations on handles never touch
\* what neither the lifecycle operations nor wait_procs touch
iterv == <<itercache, it>>
apart == <<hproc, data, iterv>>
elsewhere == <<wp, hret, apart>>
ctl == <<calls, elsewhere>>
progvars == <<hvars, th, ctl, histvars>>

(***************************************************************************)
(* The operating system: the Identity Source and the reap primitives.      *)
(***************************************************************************)
\* the process table entry of a pid nobody holds
NoProcess == [st |-> "gone", ct |-> 0, child |-> FALSE, wstatus |-> 0, denied |-> FALSE]

Exists(pid) == os[pid].st # "gone"

\* _psimpl.pid_raw_create_time(pid): the timestamp, or the error it raises.
\* Where works_on_zombies is False a zombie reports 0.
pid_raw_create_time(pid) ==
    IF pid = 0 THEN [err |-> pid0, val |-> 0]
    ELSE IF ~Exists(pid) THEN [err |-> "ProcessLookupError", val |-> 0]
    ELSE IF os[pid].denied THEN [err |-> "PermissionError", val |-> 0]
    ELSE IF os[pid].st = "zombie" /\ ~worksOnZombies THEN [err |-> "", val |-> 0]
    ELSE [err |-> "", val |-> os[pid].ct]

\* os.kill(pid, 0): the error it raises, "" when it succeeds
kill0(pid) ==
    IF ~Exists(pid) THEN "ProcessLookupError"
    ELSE IF os[pid].denied THEN "PermissionError"
    ELSE ""

\* os.waitpid(pid, os.WNOHANG): "ECHILD", "running" (wpid == 0) or "reaped"
waitpid_nohang(pid) ==
    IF ~Exists(pid) \/ ~os[pid].child THEN "ECHILD"
    ELSE IF os[pid].st = "running" THEN "running"
    ELSE "reaped"

WIFSIGNALED(wstatus) == (wstatus % 128) # 0
WTERMSIG(wstatus) == wstatus % 128
WEXITSTATUS(wstatus) == (wstatus \div 256) % 256

\* the exit code both reap sites compute from wstatus
ExitCodeOf(wstatus) ==
    IF WIFSIGNALED(wstatus) THEN 0 - WTERMSIG(wstatus) ELSE WEXITSTATUS(wstatus)

\* the process table after the kernel has released a reaped pid
Reaped(pid) == [os EXCEPT ![pid] = NoProcess]

\* A running process terminates and becomes a zombie.
OsExit(pid) ==
    /\ os[pid].st = "running"
    /\ \E w \in WStatuses : os' = [os EXCEPT ![pid].st = "zombie", ![pid].wstatus = w]
    /\ UNCHANGED <<worksOnZombies, pid0, now, gen, progvars>>

\* Somebody else (the real parent, another part of the program) reaps a zombie.
OsReap(pid) ==
    /\ os[pid].st = "zombie"
    /\ os' = Reaped(pid)
    /\ UNCHANGED <<worksOnZombies, pid0, now, gen, progvars>>

\* The pid is recycled by an unrelated process, with a later creation timestamp.
OsSpawn(pid) ==
    /\ os[pid].st = "gone"
    /\ gen[pid] < MaxGen
    /\ gen' = [gen EXCEPT ![pid] = gen[pid] + 1]
    /\ \E d \in BOOLEAN :
         os' = [os EXCEPT ![pid] = [st |-> "running", ct |-> gen[pid] + 1,
                                    child |-> FALSE, wstatus |-> 0, denied |-> d]]
    /\ UNCHANGED <<worksOnZombies, pid0, now, progvars>>

(***************************************************************************)
(* Process handles.                                                        *)
(***************************************************************************)
\* mutant: creation timestamps are never told apart
RawCreateTimesEqAny(time1, time2) == TRUE

raw_create_times_eq(time1, time2) ==
    IF worksOnZombies
    THEN time1 = time2
    ELSE time1 = time2 \/ time1 = 0 \/ time2 = 0

\* Process(pid): the constructor captures the timestamp the platform reports;
\* when the probe fails it raises and there is no handle
ProcessInit(h, pid) ==
    LET r == pid_raw_create_time(pid) IN
    /\ hproc[h] = 0
    /\ pid >= 0
    /\ IF r.err = ""
       THEN /\ hpid' = [hpid EXCEPT ![h] = pid]
            /\ hrct' = [hrct EXCEPT ![h] = r.val]
            /\ hdead' = [hdead EXCEPT ![h] = FALSE]
            /\ hexit' = [hexit EXCEPT ![h] = None]
            /\ hproc' = [hproc EXCEPT ![h] = os[pid].ct]
       ELSE UNCHANGED <<hpid, hrct, hdead, hexit, hproc>>
    /\ UNCHANGED <<osvars, lock, elock, th, calls, wp, hret, data, iterv, histvars>>

\* mutant: a handle equals only handles that are not older
ProcessEqNotOlder(pid1, rct1, pid2, rct2) == pid1 = pid2 /\ rct1 <= rct2

\* Process.__eq__
ProcessEq(pid1, rct1, pid2, rct2) == pid1 = pid2 /\ raw_create_times_eq(rct1, rct2)

\* the zero-effect probe of pid_exists: the error it raises, "" when it
\* succeeds, "none" when no probe is made
ExistenceProbe(pid) ==
    IF pid < 0 THEN "none"
    ELSE IF pid > 0 THEN kill0(pid)
    ELSE pid_raw_create_time(pid).err

\* mutant: a process the caller may not signal is taken for absent
PidExistsDeniedAbsent(pid) ==
    IF pid < 0 THEN FALSE
    ELSE IF pid > 0
         THEN kill0(pid) = ""
         ELSE pid_raw_create_time(pid).err = ""

\* pid_exists(pid)
pid_exists(pid) ==
    IF pid < 0 THEN FALSE
    ELSE IF pid > 0
         THEN kill0(pid) # "ProcessLookupError"
         ELSE pid_raw_create_time(pid).err # "ProcessLookupError"

\* no data attribute in the thread-local storage
NoCache == [on |-> FALSE, stat |-> None]

IdleFrame ==
    [op |-> "idle", h |-> 1,
     irpc |-> "none", irval |-> FALSE, irret |-> "none", irprior |-> FALSE,
     irseen |-> None,
     wpc |-> "none", timeout |-> None, is_child |-> FALSE, start_time |-> 0,
     wake |-> 0, watched |-> 0, wkind |-> "none", wval |-> None,
     oscall |-> FALSE, blocked |-> FALSE, nreap |-> 0,
     founddead |-> FALSE, viadead |-> FALSE, lastpoll |-> "none",
     scopes |-> <<>>, sc_calls |-> 0, sc_probes |-> 0, sc_same |-> TRUE,
     sc_first |-> None, sc_nested |-> "none", lastexit |-> "none", after |-> "none",
     pe_pid |-> 0, pe_err |-> "none", pe_ret |-> FALSE,
     ss_pc |-> "none", ss_sig |-> 0, ss_err |-> "none", ss_out |-> "none"]

\* wait_procs is not running
IdleProcs ==
    [pc |-> "idle", procs |-> <<>>, timeout |-> None, hascb |-> FALSE,
     start_time |-> 0, entry |-> 0, i |-> 1, alive |-> <<>>, gone |-> <<>>,
     nonchildren |-> {}, snap |-> <<>>, wake |-> 0, cb |-> <<>>, out |-> "none"]

\* the generator of _process_iter_impl does not exist
IdleIter ==
    [pc |-> "idle", ppids |-> None, skip_perm_error |-> FALSE, todo |-> {},
     seen_pids |-> {}, pid |-> 0, raw_create_time |-> 0, stale |-> FALSE,
     bad_pids |-> {}, yielded |-> [p \in Pids |-> None], out |-> "none",
     opened |-> {}, census |-> [p \in Pids |-> 0],
     prev |-> None, prevcensus |-> [p \in Pids |-> 0],
     alone |-> FALSE, popped |-> "none"]

\* the per-call count of reap attempts saturates
Bump(n) == IF n < 2 THEN n + 1 ELSE n

(***************************************************************************)
(* Process.is_running, entered with th[t].irpc = "enter"                   *)
(***************************************************************************)
\* mutant: is_running() without the early return for a handle already dead
IsRunningEnterNoCheck(t) ==
    LET h == th[t].h IN
    /\ th[t].irpc = "enter"
    /\ lock[h] = 0
    /\ th' = [th EXCEPT ![t].irpc = "probe", ![t].irprior = everFalse[h],
                        ![t].founddead = hdead[h]]
    /\ lock' = [lock EXCEPT ![h] = t]
    /\ UNCHANGED <<ctl, osvars, hpid, hrct, hdead, hexit, elock, histvars>>

\* with self._lock: if self._dead: return False
IsRunningEnter(t) ==
    LET h == th[t].h IN
    /\ th[t].irpc = "enter"
    /\ lock[h] = 0
    /\ IF hdead[h]
       THEN /\ th' = [th EXCEPT ![t].irpc = "done", ![t].irret = "False",
                                ![t].irprior = everFalse[h], ![t].founddead = TRUE]
            /\ everFalse' = [everFalse EXCEPT ![h] = TRUE]
            /\ UNCHANGED lock
       ELSE /\ th' = [th EXCEPT ![t].irpc = "probe", ![t].irprior = everFalse[h],
                                ![t].founddead = FALSE]
            /\ lock' = [lock EXCEPT ![h] = t]
            /\ UNCHANGED everFalse
    /\ UNCHANGED <<ctl, osvars, hpid, hrct, hdead, hexit, elock, deadRets>>

\* mutant: a permission error of the probe counts as the process being gone
IsRunningProbeDeniedDead(t) ==
    LET h == th[t].h
        r == pid_raw_create_time(hpid[h]) IN
    /\ th[t].irpc = "probe"
    /\ IF FALSE
       THEN /\ th' = [th EXCEPT ![t].irpc = "done", ![t].irret = "AccessDenied",
                                ![t].oscall = TRUE]
            /\ lock' = [lock EXCEPT ![h] = 0]
       ELSE /\ th' = [th EXCEPT ![t].irpc = "assign", ![t].oscall = TRUE,
                        ![t].irseen = IF r.err = "" THEN Some(r.val) ELSE None,
                        ![t].irval = IF r.err # "" THEN TRUE
                                     ELSE ~raw_create_times_eq(hrct[h], r.val)]
            /\ UNCHANGED lock
    /\ UNCHANGED <<ctl, osvars, hpid, hrct, hdead, hexit, elock, histvars>>

\* the probe, and the value the assignment to self._dead will store
IsRunningProbe(t) ==
    LET h == th[t].h
        r == pid_raw_create_time(hpid[h]) IN
    /\ th[t].irpc = "probe"
    /\ IF r.err = "PermissionError"
       THEN /\ th' = [th EXCEPT ![t].irpc = "done", ![t].irret = "AccessDenied",
                                ![t].oscall = TRUE]
            /\ lock' = [lock EXCEPT ![h] = 0]
       ELSE /\ th' = [th EXCEPT ![t].irpc = "assign", ![t].oscall = TRUE,
                        ![t].irseen = IF r.err = "" THEN Some(r.val) ELSE None,
                        ![t].irval = IF r.err = "ProcessLookupError" THEN TRUE
                                     ELSE ~raw_create_times_eq(hrct[h], r.val)]
            /\ UNCHANGED lock
    /\ UNCHANGED <<ctl, osvars, hpid, hrct, hdead, hexit, elock, histvars>>

\* self._dead = ...
IsRunningAssign(t) ==
    LET h == th[t].h IN
    /\ th[t].irpc = "assign"
    /\ hdead' = [hdead EXCEPT ![h] = th[t].irval]
    /\ th' = [th EXCEPT ![t].irpc = "ret"]
    /\ UNCHANGED <<ctl, osvars, hpid, hrct, hexit, lock, elock, histvars>>

\* return not self._dead
IsRunningReturn(t) ==
    LET h == th[t].h IN
    /\ th[t].irpc = "ret"
    /\ th' = [th EXCEPT ![t].irpc = "done",
                        ![t].irret = IF hdead[h] THEN "False" ELSE "True"]
    /\ lock' = [lock EXCEPT ![h] = 0]
    /\ everFalse' = [everFalse EXCEPT ![h] = @ \/ hdead[h]]
    /\ UNCHANGED <<ctl, osvars, hpid, hrct, hdead, hexit, elock, deadRets>>

is_running(t) ==
    \/ IsRunningEnter(t)
    \/ IsRunningProbe(t)
    \/ IsRunningAssign(t)
    \/ IsRunningReturn(t)

\* a caller invokes is_running() on a handle
CallIsRunning(t, h) ==
    /\ th[t].op = "idle"
    /\ calls < MaxCalls
    /\ calls' = calls + 1
    /\ th' = [th EXCEPT ![t] = [IdleFrame EXCEPT !.op = "is_running", !.h = h,
                                                 !.irpc = "enter"]]
    /\ UNCHANGED <<osvars, hvars, histvars, elsewhere>>

\* the call is over and its result is with the caller
ReturnIsRunning(t) ==
    /\ th[t].op = "is_running"
    /\ th[t].irpc = "done"
    /\ th' = [th EXCEPT ![t] = IdleFrame]
    /\ UNCHANGED <<ctl, osvars, hvars, histvars>>

(***************************************************************************)
(* Process._wait_child_poll: one non-blocking reap under self._lock. res   *)
(* is what os.waitpid(pid, WNOHANG) did: "ECHILD" (ChildProcessError       *)
(* leaves the method), "running" (returns False), "reaped" (returns True,  *)
(* with _dead and _exitcode set); os, hdead, hexit are the state after it. *)
(***************************************************************************)
wait_child_poll(h) ==
    LET pid == hpid[h]
        res == waitpid_nohang(pid) IN
    IF res = "reaped"
    THEN [res |-> res, os |-> Reaped(pid),
          hdead |-> [hdead EXCEPT ![h] = TRUE],
          hexit |-> [hexit EXCEPT ![h] = Some(ExitCodeOf(os[pid].wstatus))]]
    ELSE [res |-> res, os |-> os, hdead |-> hdead, hexit |-> hexit]

(***************************************************************************)
(* Process.wait, entered with th[t].wpc = "isrun" and is_running started.  *)
(***************************************************************************)
StartWait(f, h, timeout) ==
    [f EXCEPT !.h = h, !.timeout = timeout, !.wpc = "isrun", !.irpc = "enter",
              !.irret = "none", !.wkind = "none", !.wval = None, !.viadead = FALSE,
              !.founddead = FALSE, !.lastpoll = "none",
              !.is_child = FALSE, !.start_time = 0, !.wake = 0, !.watched = 0,
              !.oscall = FALSE, !.blocked = FALSE, !.nreap = 0]

\* the frame of a wait() that ends raising exc
Raise(f, exc) == [f EXCEPT !.wpc = "done", !.wkind = exc, !.wval = None]

\* the frame of a wait() that ends returning the optional exit code v
Return(f, v) == [f EXCEPT !.wpc = "done", !.wkind = "return", !.wval = v]

\* remaining_time of the polling loop
RemainingTime(f) ==
    IF TheVal(f.timeout) > 0 THEN (f.start_time + TheVal(f.timeout)) - now ELSE 0

Min(a, b) == IF a < b THEN a ELSE b

\* the tail of one turn of the polling loop: the deadline check and the sleep
AfterPoll(f) ==
    IF f.timeout = None
    THEN [f EXCEPT !.blocked = TRUE]
    ELSE IF RemainingTime(f) <= 0
         THEN Raise(f, "TimeoutExpired")
         ELSE [f EXCEPT !.wpc = "sleep", !.blocked = TRUE,
                        !.wake = now + Min(Interval, RemainingTime(f))]

\* if not self.is_running(): ...; start_time, is_child and the branch taken
WaitAfterIsRunning(t) ==
    LET f == th[t]
        h == f.h
        g == [f EXCEPT !.irpc = "none",
                !.start_time = IF f.timeout # None /\ TheVal(f.timeout) > 0
                               THEN now ELSE 0,
                !.is_child = hpid[h] > 0] IN
    /\ f.wpc = "isrun"
    /\ f.irpc = "done"
    /\ th' = [th EXCEPT ![t] =
                IF f.irret = "AccessDenied" THEN Raise(g, "AccessDenied")
                ELSE IF f.irret = "False"
                     THEN [g EXCEPT !.wpc = "dead_lock", !.viadead = f.founddead]
                ELSE IF f.timeout = None /\ hpid[h] > 0
                     THEN [g EXCEPT !.wpc = "blk_acquire"]
                ELSE IF f.timeout # None /\ TheVal(f.timeout) <= 0 /\ hpid[h] > 0
                     THEN [g EXCEPT !.wpc = "zero"]
                ELSE [g EXCEPT !.wpc = "notify"]]
    /\ UNCHANGED <<ctl, osvars, hvars, histvars>>

\* with self._lock, ...
WaitDeadLock(t) ==
    LET h == th[t].h IN
    /\ th[t].wpc \in {"dead_lock", "nc_lock"}
    /\ lock[h] \in {0, t}
    /\ lock' = [lock EXCEPT ![h] = t]
    /\ th' = [th EXCEPT ![t].wpc = IF @ = "dead_lock" THEN "dead_ret" ELSE "nc_ret"]
    /\ UNCHANGED <<ctl, osvars, hpid, hrct, hdead, hexit, elock, histvars>>

\* mutant: the dead path returns None instead of the stored exit code
WaitDeadReturnNone(t) ==
    LET h == th[t].h IN
    /\ th[t].wpc \in {"dead_ret", "nc_ret"}
    /\ elock[h] \in {0, t}
    /\ lock' = [lock EXCEPT ![h] = 0]
    /\ th' = [th EXCEPT ![t] = Return(@, None)]
    /\ deadRets' = IF th[t].viadead
                   THEN [deadRets EXCEPT ![h] = @ \cup {None}]
                   ELSE deadRets
    /\ UNCHANGED <<ctl, osvars, hpid, hrct, hdead, hexit, elock, everFalse>>

\* ... self._exitcode_lock: return self._exitcode
WaitDeadReturn(t) ==
    LET h == th[t].h IN
    /\ th[t].wpc \in {"dead_ret", "nc_ret"}
    /\ elock[h] \in {0, t}
    /\ lock' = [lock EXCEPT ![h] = 0]
    /\ th' = [th EXCEPT ![t] = Return(@, hexit[h])]
    /\ deadRets' = IF th[t].viadead
                   THEN [deadRets EXCEPT ![h] = @ \cup {hexit[h]}]
                   ELSE deadRets
    /\ UNCHANGED <<ctl, osvars, hpid, hrct, hdead, hexit, elock, everFalse>>

\* with self._exitcode_lock:
WaitBlockAcquire(t) ==
    LET h == th[t].h IN
    /\ th[t].wpc = "blk_acquire"
    /\ elock[h] \in {0, t}
    /\ elock' = [elock EXCEPT ![h] = t]
    /\ th' = [th EXCEPT ![t].wpc = "blk_wait"]
    /\ UNCHANGED <<ctl, osvars, hpid, hrct, hdead, hexit, lock, histvars>>

\* mutant: the blocking branch without its except ChildProcessError clause
WaitBlockWaitpidNoExcept(t) ==
    LET h == th[t].h
        pid == hpid[h] IN
    /\ th[t].wpc = "blk_wait"
    /\ IF Exists(pid) /\ os[pid].child
       THEN /\ os[pid].st = "zombie"
            /\ os' = Reaped(pid)
            /\ th' = [th EXCEPT ![t].wpc = "blk_dead", ![t].oscall = TRUE, ![t].blocked = TRUE,
                                ![t].lastpoll = "reaped", ![t].watched = os[pid].wstatus]
            /\ UNCHANGED elock
       ELSE /\ th' = [th EXCEPT ![t] = Raise([@ EXCEPT !.lastpoll = "ECHILD"],
                                               "ChildProcessError")]
            /\ elock' = [elock EXCEPT ![h] = 0]
            /\ UNCHANGED os
    /\ UNCHANGED <<ctl, worksOnZombies, pid0, now, gen, hpid, hrct, hdead, hexit, lock, histvars>>

\* os.waitpid(self._pid, 0): blocks while the child runs
WaitBlockWaitpid(t) ==
    LET h == th[t].h
        pid == hpid[h] IN
    /\ th[t].wpc = "blk_wait"
    /\ IF Exists(pid) /\ os[pid].child
       THEN /\ os[pid].st = "zombie"
            /\ os' = Reaped(pid)
            /\ th' = [th EXCEPT ![t].wpc = "blk_dead", ![t].oscall = TRUE, ![t].blocked = TRUE,
                                ![t].lastpoll = "reaped", ![t].watched = os[pid].wstatus]
            /\ UNCHANGED elock
       ELSE /\ th' = [th EXCEPT ![t].wpc = "notify", ![t].oscall = TRUE, ![t].blocked = TRUE,
                                ![t].lastpoll = "ECHILD", ![t].is_child = FALSE]
            /\ elock' = [elock EXCEPT ![h] = 0]
            /\ UNCHANGED os
    /\ UNCHANGED <<ctl, worksOnZombies, pid0, now, gen, hpid, hrct, hdead, hexit, lock, histvars>>

\* self._dead = True
WaitBlockSetDead(t) ==
    LET h == th[t].h IN
    /\ th[t].wpc = "blk_dead"
    /\ hdead' = [hdead EXCEPT ![h] = TRUE]
    /\ th' = [th EXCEPT ![t].wpc = "blk_exit"]
    /\ UNCHANGED <<ctl, osvars, hpid, hrct, hexit, lock, elock, histvars>>

\* self._exitcode = ...; return self._exitcode
WaitBlockSetExit(t) ==
    LET h == th[t].h
        code == Some(ExitCodeOf(th[t].watched)) IN
    /\ th[t].wpc = "blk_exit"
    /\ hexit' = [hexit EXCEPT ![h] = code]
    /\ elock' = [elock EXCEPT ![h] = 0]
    /\ th' = [th EXCEPT ![t] = Return(@, code)]
    /\ UNCHANGED <<ctl, osvars, hpid, hrct, hdead, lock, histvars>>

\* mutant: the zero-timeout branch returns instead of raising TimeoutExpired
WaitZeroNoRaise(t) ==
    LET h == th[t].h
        r == wait_child_poll(h)
        f == [th[t] EXCEPT !.nreap = Bump(@), !.oscall = TRUE, !.lastpoll = r.res] IN
    /\ f.wpc = "zero"
    /\ lock[h] \in {0, t}
    /\ os' = r.os /\ hdead' = r.hdead /\ hexit' = r.hexit
    /\ th' = [th EXCEPT ![t] = Return(f, r.hexit[h])]
    /\ UNCHANGED <<ctl, worksOnZombies, pid0, now, gen, hpid, hrct, lock, elock, histvars>>

\* the zero-timeout branch
WaitZero(t) ==
    LET h == th[t].h
        r == wait_child_poll(h)
        f == [th[t] EXCEPT !.nreap = Bump(@), !.oscall = TRUE, !.lastpoll = r.res] IN
    /\ f.wpc = "zero"
    /\ lock[h] \in {0, t}
    /\ os' = r.os /\ hdead' = r.hdead /\ hexit' = r.hexit
    /\ th' = [th EXCEPT ![t] =
                IF r.res = "reaped" THEN Return(f, r.hexit[h])
                ELSE Raise(f, "TimeoutExpired")]
    /\ UNCHANGED <<ctl, worksOnZombies, pid0, now, gen, hpid, hrct, lock, elock, histvars>>

\* pidfd_open / kqueue: absent or failing with OSError, else watching the process
WaitNotify(t) ==
    LET h == th[t].h
        pid == hpid[h] IN
    /\ th[t].wpc = "notify"
    /\ \/ th' = [th EXCEPT ![t].wpc = "poll"]
       \/ /\ Exists(pid)
          /\ th' = [th EXCEPT ![t].wpc = "select", ![t].watched = os[pid].ct]
    /\ UNCHANGED <<ctl, osvars, hvars, histvars>>

\* select.select / kqueue.control, bounded by the remaining time
WaitSelect(t) ==
    LET f == [th[t] EXCEPT !.oscall = TRUE, !.blocked = TRUE]
        pid == hpid[f.h]
        ready == os[pid].st # "running" \/ os[pid].ct # f.watched IN
    /\ f.wpc = "select"
    /\ \/ /\ ready
          /\ th' = [th EXCEPT ![t] = [f EXCEPT !.wpc = "poll"]]
       \/ /\ ~ready
          /\ f.timeout # None
          /\ f.start_time + TheVal(f.timeout) <= now
          /\ th' = [th EXCEPT ![t] = Raise(f, "TimeoutExpired")]
    /\ UNCHANGED <<ctl, osvars, hvars, histvars>>

\* mutant: the polling loop without its except ChildProcessError clause
WaitPollNoExcept(t) ==
    LET f == th[t]
        h == f.h
        r == wait_child_poll(h) IN
    /\ f.wpc = "poll"
    /\ IF f.is_child
       THEN /\ lock[h] \in {0, t}
            /\ os' = r.os /\ hdead' = r.hdead /\ hexit' = r.hexit
            /\ th' = [th EXCEPT ![t] =
                 LET g == [f EXCEPT !.nreap = Bump(@), !.oscall = TRUE, !.lastpoll = r.res] IN
                 IF r.res = "reaped" THEN Return(g, r.hexit[h])
                 ELSE IF r.res = "ECHILD" THEN Raise(g, "ChildProcessError")
                 ELSE AfterPoll(g)]
       ELSE /\ th' = [th EXCEPT ![t] =
                 LET g == [f EXCEPT !.oscall = TRUE] IN
                 IF ~pid_exists(hpid[h]) THEN [g EXCEPT !.wpc = "nc_lock"]
                 ELSE AfterPoll(g)]
            /\ UNCHANGED <<os, hdead, hexit>>
    /\ UNCHANGED <<ctl, worksOnZombies, pid0, now, gen, hpid, hrct, lock, elock, histvars>>

\* one turn of the polling loop
WaitPoll(t) ==
    LET f == th[t]
        h == f.h
        r == wait_child_poll(h) IN
    /\ f.wpc = "poll"
    /\ IF f.is_child
       THEN /\ lock[h] \in {0, t}
            /\ os' = r.os /\ hdead' = r.hdead /\ hexit' = r.hexit
            /\ th' = [th EXCEPT ![t] =
                 LET g == [f EXCEPT !.nreap = Bump(@), !.oscall = TRUE, !.lastpoll = r.res] IN
                 IF r.res = "reaped" THEN Return(g, r.hexit[h])
                 ELSE IF r.res = "ECHILD" THEN [g EXCEPT !.is_child = FALSE]
                 ELSE AfterPoll(g)]
       ELSE /\ th' = [th EXCEPT ![t] =
                 LET g == [f EXCEPT !.oscall = TRUE] IN
                 IF ~pid_exists(hpid[h]) THEN [g EXCEPT !.wpc = "nc_lock"]
                 ELSE AfterPoll(g)]
            /\ UNCHANGED <<os, hdead, hexit>>
    /\ UNCHANGED <<ctl, worksOnZombies, pid0, now, gen, hpid, hrct, lock, elock, histvars>>

\* time.sleep(interval) is over
WaitWake(t) ==
    /\ th[t].wpc = "sleep"
    /\ th[t].wake <= now
    /\ th' = [th EXCEPT ![t].wpc = "poll"]
    /\ UNCHANGED <<ctl, osvars, hvars, histvars>>

wait(t) ==
    \/ WaitAfterIsRunning(t)
    \/ WaitDeadLock(t)
    \/ WaitDeadReturn(t)
    \/ WaitBlockAcquire(t)
    \/ WaitBlockWaitpid(t)
    \/ WaitBlockSetDead(t)
    \/ WaitBlockSetExit(t)
    \/ WaitZero(t)
    \/ WaitNotify(t)
    \/ WaitSelect(t)
    \/ WaitPoll(t)

\* a thread sleeps, or blocks under a deadline, beyond the present
Sleeping(t) ==
    \/ th[t].wpc = "sleep" /\ th[t].wake > now
    \/ /\ th[t].wpc = "select"
       /\ th[t].timeout # None
       /\ th[t].start_time + TheVal(th[t].timeout) > now

\* the monotonic clock advances while somebody waits for it
Tick ==
    /\ \/ \E t \in Threads : Sleeping(t)
       \/ wp.pc = "sleep" /\ wp.wake > now
    /\ now' = now + 1
    /\ UNCHANGED <<ctl, worksOnZombies, pid0, os, gen, hvars, th, histvars>>

Timeouts == {None, Some(0), Some(MaxTimeout)}
\* the timeouts the threads sharing a handle pass: none, and zero
UntimedTimeouts == {None, Some(0)}

\* a caller invokes wait(timeout=...) on a handle
CallWait(t, h, timeout) ==
    /\ th[t].op = "idle"
    /\ calls < MaxCalls
    /\ calls' = calls + 1
    /\ th' = [th EXCEPT ![t] = StartWait([IdleFrame EXCEPT !.op = "wait"], h, timeout)]
    /\ UNCHANGED <<osvars, hvars, histvars, elsewhere>>

\* the call is over and its outcome is with the caller
ReturnWait(t) ==
    /\ th[t].op = "wait"
    /\ th[t].wpc = "done"
    /\ th' = [th EXCEPT ![t] = IdleFrame]
    /\ UNCHANGED <<ctl, osvars, hvars, histvars>>

\* a caller invokes pid_exists(pid); the call is one probe and its verdict
CallPidExists(t, pid) ==
    /\ th[t].op = "idle"
    /\ calls < MaxCalls
    /\ calls' = calls + 1
    /\ th' = [th EXCEPT ![t] = [IdleFrame EXCEPT !.op = "pid_exists",
                                                 !.pe_pid = pid,
                                                 !.pe_err = ExistenceProbe(pid),
                                                 !.pe_ret = pid_exists(pid)]]
    /\ UNCHANGED <<osvars, hvars, histvars, elsewhere>>

\* the verdict is with the caller
ReturnPidExists(t) ==
    /\ th[t].op = "pid_exists"
    /\ th' = [th EXCEPT ![t] = IdleFrame]
    /\ UNCHANGED <<ctl, osvars, hvars, histvars>>

(***************************************************************************)
(* Process.send_signal, which terminate() and kill() call with SIGTERM and *)
(* SIGKILL; entered with th[t].ss_pc = "check" and is_running started.     *)
(***************************************************************************)
\* signal.SIGKILL and signal.SIGTERM
Signals == {9, 15}

\* a caller invokes send_signal(sig) on a handle; pid 0 is refused at once
CallSendSignal(t, h, sig) ==
    /\ th[t].op = "idle"
    /\ calls < MaxCalls
    /\ calls' = calls + 1
    /\ th' = [th EXCEPT ![t] =
                IF hpid[h] = 0
                THEN [IdleFrame EXCEPT !.op = "send_signal", !.h = h, !.ss_sig = sig,
                                       !.ss_pc = "done", !.ss_out = "AccessDenied"]
                ELSE [IdleFrame EXCEPT !.op = "send_signal", !.h = h, !.ss_sig = sig,
                                       !.ss_pc = "check", !.irpc = "enter"]]
    /\ UNCHANGED <<osvars, hvars, histvars, elsewhere>>

\* mutant: a signal that finds no process marks the handle dead
SendSignalKillMarksDead(t) ==
    LET f == th[t]
        h == f.h
        pid == hpid[h]
        e == kill0(pid)
    IN
    /\ f.op = "send_signal"
    /\ f.ss_pc = "check"
    /\ f.irpc = "done"
    /\ IF f.irret # "True"
       THEN /\ th' = [th EXCEPT ![t].ss_pc = "done",
                         ![t].ss_out = IF f.irret = "AccessDenied" THEN "AccessDenied"
                                       ELSE "NoSuchProcess"]
            /\ UNCHANGED <<os, hdead>>
       ELSE /\ th' = [th EXCEPT ![t].ss_pc = "done", ![t].ss_err = e,
                         ![t].ss_out = IF e = "ProcessLookupError" THEN "NoSuchProcess"
                                       ELSE IF e = "PermissionError" THEN "AccessDenied"
                                       ELSE "delivered"]
            /\ hdead' = IF e = "ProcessLookupError" THEN [hdead EXCEPT ![h] = TRUE]
                        ELSE hdead
            /\ IF e = "" /\ os[pid].st = "running"
               THEN \/ os' = os
                    \/ os' = [os EXCEPT ![pid].st = "zombie", ![pid].wstatus = f.ss_sig]
               ELSE os' = os
    /\ UNCHANGED <<ctl, worksOnZombies, pid0, now, gen, hpid, hrct, hexit, lock, elock,
                   histvars>>

\* self._check_running() raises NoSuchProcess unless is_running() said True;
\* then os.kill(self._pid, sig), its errors translated by translate_proc_errors.
\* A delivered signal ends a running process or is handled by it.
SendSignalKill(t) ==
    LET f == th[t]
        h == f.h
        pid == hpid[h]
        e == kill0(pid)
    IN
    /\ f.op = "send_signal"
    /\ f.ss_pc = "check"
    /\ f.irpc = "done"
    /\ IF f.irret # "True"
       THEN /\ th' = [th EXCEPT ![t].ss_pc = "done",
                         ![t].ss_out = IF f.irret = "AccessDenied" THEN "AccessDenied"
                                       ELSE "NoSuchProcess"]
            /\ UNCHANGED os
       ELSE /\ th' = [th EXCEPT ![t].ss_pc = "done", ![t].ss_err = e,
                         ![t].ss_out = IF e = "ProcessLookupError" THEN "NoSuchProcess"
                                       ELSE IF e = "PermissionError" THEN "AccessDenied"
                                       ELSE "delivered"]
            /\ IF e = "" /\ os[pid].st = "running"
               THEN \/ os' = os
                    \/ os' = [os EXCEPT ![pid].st = "zombie", ![pid].wstatus = f.ss_sig]
               ELSE os' = os
    /\ UNCHANGED <<ctl, worksOnZombies, pid0, now, gen, hvars, histvars>>

\* the call is over and its outcome is with the caller
ReturnSendSignal(t) ==
    /\ th[t].op = "send_signal"
    /\ th[t].ss_pc = "done"
    /\ th' = [th EXCEPT ![t] = IdleFrame]
    /\ UNCHANGED <<ctl, osvars, hvars, histvars>>

(***************************************************************************)
(* wait_procs, run by thread 1; its calls of is_running and wait use the   *)
(* frames of that thread.                                                  *)
(***************************************************************************)
\* Process.__hash__
Hash(h) == hpid[h]

\* mutant: handles are equal only if they agree on the dead flag too
EqHSameFlag(a, b) ==
    ProcessEq(hpid[a], hrct[a], hpid[b], hrct[b]) /\ hdead[a] = hdead[b]

\* Process.__eq__ on two handles
EqH(a, b) == ProcessEq(hpid[a], hrct[a], hpid[b], hrct[b])

\* list.remove(x): without the first element equal to x
ListRemove(seq, x) ==
    LET k == CHOOSE k \in 1..Len(seq) :
                 EqH(seq[k], x) /\ \A j \in 1..(k - 1) : ~EqH(seq[j], x) IN
    SubSeq(seq, 1, k - 1) \o SubSeq(seq, k + 1, Len(seq))

\* x in set_of_processes
InSet(x, set) == \E y \in set : EqH(y, x)

\* mutant: a resolution that forgets the callback
ResolveNoCallback(w, proc) ==
    [w EXCEPT !.alive = ListRemove(@, proc),
              !.gone = Append(@, proc)]

\* the frame once proc has resolved: callback(proc), alive.remove, gone.append
Resolve(w, proc) ==
    [w EXCEPT !.cb = IF w.hascb THEN Append(@, proc) ELSE @,
              !.alive = ListRemove(@, proc),
              !.gone = Append(@, proc)]

\* the frame once proc was found dead in the first pass
FirstPassGone(w, proc) ==
    [w EXCEPT !.cb = IF w.hascb THEN Append(@, proc) ELSE @,
              !.gone = Append(@, proc)]

\* a caller invokes wait_procs(procs, timeout, callback)
CallWaitProcs(procs, timeout, hascb) ==
    /\ th[1].op = "idle"
    /\ calls < MaxProcsCalls
    /\ calls' = calls + 1
    /\ th' = [th EXCEPT ![1] = [IdleFrame EXCEPT !.op = "wait_procs"]]
    /\ wp' = [IdleProcs EXCEPT !.pc = "first", !.procs = procs, !.timeout = timeout,
                !.hascb = hascb, !.entry = now,
                !.start_time = IF timeout # None /\ TheVal(timeout) > 0
                               THEN now ELSE 0]
    /\ UNCHANGED <<osvars, hvars, hret, histvars, apart>>

\* for proc in procs: if proc.is_running(): ...; after the pass, if not alive: return
ProcsFirst ==
    /\ wp.pc = "first"
    /\ IF wp.i <= Len(wp.procs)
       THEN /\ th' = [th EXCEPT ![1].h = wp.procs[wp.i], ![1].irpc = "enter"]
            /\ wp' = [wp EXCEPT !.pc = "first_ir"]
       ELSE /\ wp' = IF wp.alive = <<>>
                     THEN [wp EXCEPT !.pc = "done", !.out = "return"]
                     ELSE [wp EXCEPT !.pc = "loop", !.nonchildren = {}]
            /\ UNCHANGED th
    /\ UNCHANGED <<osvars, hvars, calls, hret, histvars, apart>>

\* the body of the first pass for one proc, is_running() having answered
ProcsFirstResult ==
    LET proc == wp.procs[wp.i] IN
    /\ wp.pc = "first_ir"
    /\ th[1].irpc = "done"
    /\ th' = [th EXCEPT ![1] = [IdleFrame EXCEPT !.op = "wait_procs"]]
    /\ IF th[1].irret = "AccessDenied"
       THEN /\ wp' = [wp EXCEPT !.pc = "done", !.out = "AccessDenied"]
            /\ UNCHANGED hret
       ELSE IF th[1].irret = "True"
       THEN /\ wp' = [wp EXCEPT !.pc = "first", !.i = @ + 1,
                                !.alive = Append(@, proc)]
            /\ UNCHANGED hret
       ELSE /\ lock[proc] \in {0, 1} /\ elock[proc] \in {0, 1}
            /\ hret' = IF hret[proc] = {}
                       THEN [hret EXCEPT ![proc] = {hexit[proc]}]
                       ELSE hret
            /\ wp' = [FirstPassGone(wp, proc) EXCEPT !.pc = "first", !.i = @ + 1]
    /\ UNCHANGED <<osvars, hvars, calls, histvars, apart>>

\* while True: one proc left is handed to Process.wait(); else a scan starts
ProcsLoop ==
    /\ wp.pc = "loop"
    /\ IF Len(wp.alive) = 1
       THEN /\ th' = [th EXCEPT ![1] = StartWait(@, wp.alive[1], wp.timeout)]
            /\ wp' = [wp EXCEPT !.pc = "deleg"]
       ELSE /\ wp' = [wp EXCEPT !.pc = "scan", !.snap = wp.alive, !.i = 1]
            /\ UNCHANGED th
    /\ UNCHANGED <<osvars, hvars, calls, hret, histvars, apart>>

\* mutant: the delegation without its except TimeoutExpired clause
ProcsDelegatedNoExcept ==
    LET proc == wp.alive[1]
        f == th[1] IN
    /\ wp.pc = "deleg"
    /\ f.wpc = "done"
    /\ th' = [th EXCEPT ![1].wpc = "none"]
    /\ IF f.wkind = "return"
       THEN /\ hret' = [hret EXCEPT ![proc] = {f.wval}]
            /\ wp' = [Resolve(wp, proc) EXCEPT !.pc = "done", !.out = "return"]
       ELSE /\ wp' = [wp EXCEPT !.pc = "done",
                        !.out = f.wkind]
            /\ UNCHANGED hret
    /\ UNCHANGED <<osvars, hvars, calls, histvars, apart>>

\* proc.wait(timeout=timeout) is over: return gone, alive
ProcsDelegated ==
    LET proc == wp.alive[1]
        f == th[1] IN
    /\ wp.pc = "deleg"
    /\ f.wpc = "done"
    /\ th' = [th EXCEPT ![1].wpc = "none"]
    /\ IF f.wkind = "return"
       THEN /\ hret' = [hret EXCEPT ![proc] = {f.wval}]
            /\ wp' = [Resolve(wp, proc) EXCEPT !.pc = "done", !.out = "return"]
       ELSE /\ wp' = [wp EXCEPT !.pc = "done",
                        !.out = IF f.wkind = "TimeoutExpired" THEN "return"
                                ELSE f.wkind]
            /\ UNCHANGED hret
    /\ UNCHANGED <<osvars, hvars, calls, histvars, apart>>

\* the deadline check and the sleep that end one scan of alive
AfterScan(w) ==
    IF w.alive = <<>> THEN [w EXCEPT !.pc = "done", !.out = "return"]
    ELSE IF w.timeout = None THEN [w EXCEPT !.pc = "loop"]
    ELSE LET remaining_time == IF TheVal(w.timeout) > 0
                               THEN (w.start_time + TheVal(w.timeout)) - now
                               ELSE 0 IN
         IF remaining_time <= 0 THEN [w EXCEPT !.pc = "done", !.out = "return"]
         ELSE [w EXCEPT !.pc = "sleep", !.wake = now + Min(Interval, remaining_time)]

\* for proc in list(alive): one non-blocking resolution of the next proc
ProcsScan ==
    LET proc == wp.snap[wp.i]
        pid == hpid[proc]
        r == wait_child_poll(proc)
        w == [wp EXCEPT !.i = @ + 1]
        markdead == [hdead EXCEPT ![proc] = TRUE] IN
    /\ wp.pc = "scan"
    /\ IF wp.i > Len(wp.snap)
       THEN /\ wp' = AfterScan(wp)
            /\ UNCHANGED <<os, hdead, hexit, hret>>
       ELSE IF InSet(proc, wp.nonchildren)
       THEN IF ~pid_exists(pid)
            THEN /\ lock[proc] \in {0, 1} /\ elock[proc] \in {0, 1}
                 /\ hdead' = markdead
                 /\ hret' = [hret EXCEPT ![proc] = {hexit[proc]}]
                 /\ wp' = Resolve(w, proc)
                 /\ UNCHANGED <<os, hexit>>
            ELSE /\ wp' = w
                 /\ UNCHANGED <<os, hdead, hexit, hret>>
       ELSE /\ lock[proc] \in {0, 1}
            /\ IF r.res = "reaped"
               THEN /\ os' = r.os /\ hdead' = r.hdead /\ hexit' = r.hexit
                    /\ hret' = [hret EXCEPT ![proc] = {r.hexit[proc]}]
                    /\ wp' = Resolve(w, proc)
               ELSE IF r.res = "running"
               THEN /\ wp' = w
                    /\ UNCHANGED <<os, hdead, hexit, hret>>
               ELSE IF pid_exists(pid)
               THEN /\ wp' = [w EXCEPT !.nonchildren = @ \cup {proc}]
                    /\ UNCHANGED <<os, hdead, hexit, hret>>
               ELSE /\ elock[proc] \in {0, 1}
                    /\ hdead' = markdead
                    /\ hret' = [hret EXCEPT ![proc] = {hexit[proc]}]
                    /\ wp' = Resolve(w, proc)
                    /\ UNCHANGED <<os, hexit>>
    /\ UNCHANGED <<worksOnZombies, pid0, now, gen, hpid, hrct, lock, elock, th, calls,
                   histvars, apart>>

\* time.sleep(interval) is over
ProcsWake ==
    /\ wp.pc = "sleep"
    /\ wp.wake <= now
    /\ wp' = [wp EXCEPT !.pc = "loop"]
    /\ UNCHANGED <<osvars, hvars, th, calls, hret, histvars, apart>>

\* the call is over and its outcome is with the caller
ReturnWaitProcs ==
    /\ wp.pc = "done"
    /\ wp' = IdleProcs
    /\ th' = [th EXCEPT ![1] = IdleFrame]
    /\ UNCHANGED <<osvars, hvars, calls, hret, histvars, apart>>

wait_procs ==
    \/ ProcsFirst
    \/ ProcsFirstResult
    \/ ProcsLoop
    \/ ProcsDelegated
    \/ ProcsScan
    \/ ProcsWake

(***************************************************************************)
(* Threads sharing one handle of a process that runs when it is opened.    *)
(***************************************************************************)
Init ==
    /\ worksOnZombies \in BOOLEAN
    /\ pid0 = "ProcessLookupError"
    /\ now = 0
    /\ \E c \in BOOLEAN :
         os = [p \in Pids |-> IF p = 1
                 THEN [st |-> "running", ct |-> 1, child |-> c, wstatus |-> 0,
                       denied |-> FALSE]
                 ELSE NoProcess]
    /\ gen = [p \in Pids |-> IF p = 1 THEN 1 ELSE 0]
    /\ hpid = [h \in Handles |-> 1]
    /\ hrct = [h \in Handles |-> 1]
    /\ hdead = [h \in Handles |-> FALSE]
    /\ hexit = [h \in Handles |-> None]
    /\ lock = [h \in Handles |-> 0]
    /\ elock = [h \in Handles |-> 0]
    /\ th = [t \in Threads |-> IdleFrame]
    /\ calls = 0
    /\ wp = IdleProcs
    /\ hret = [h \in Handles |-> {}]
    /\ hproc = [h \in Handles |-> 1]
    /\ data = [h \in Handles |-> [t \in Threads |-> NoCache]]
    /\ itercache = [p \in Pids |-> None]
    /\ it = [t \in Threads |-> IdleIter]
    /\ everFalse = [h \in Handles |-> FALSE]
    /\ deadRets = [h \in Handles |-> {}]

vars == <<worksOnZombies, pid0, now, os, gen, hpid, hrct, hdead, hexit, lock, elock,
          th, calls, wp, hret, hproc, data, itercache, it, everFalse, deadRets>>

Next ==
    \/ OsExit(1)
    \/ OsReap(1)
    \/ OsSpawn(1)
    \/ \E t \in Threads :
         \/ CallIsRunning(t, 1)
         \/ ReturnIsRunning(t)
         \/ \E timeout \in UntimedTimeouts : CallWait(t, 1, timeout)
         \/ ReturnWait(t)
         \/ is_running(t)
         \/ wait(t)

Spec == Init /\ [][Next]_vars

(***************************************************************************)
(* One thread calling wait_procs on handles of two processes, with the     *)
(* clock.                                                                  *)
(***************************************************************************)
\* the sequences of distinct handles
ProcLists == {<<>>, <<1>>, <<1, 2>>, <<2, 1>>}

InitProcs ==
    /\ worksOnZombies \in BOOLEAN
    /\ pid0 = "ProcessLookupError"
    /\ now = 0
    /\ \E c \in [Pids -> BOOLEAN] :
         os = [p \in Pids |-> [st |-> "running", ct |-> 1, child |-> c[p],
                               wstatus |-> 0, denied |-> FALSE]]
    /\ gen = [p \in Pids |-> 1]
    /\ hpid = [h \in Handles |-> h]
    /\ hrct = [h \in Handles |-> 1]
    /\ hdead = [h \in Handles |-> FALSE]
    /\ hexit = [h \in Handles |-> None]
    /\ lock = [h \in Handles |-> 0]
    /\ elock = [h \in Handles |-> 0]
    /\ th = [t \in Threads |-> IdleFrame]
    /\ calls = 0
    /\ wp = IdleProcs
    /\ hret = [h \in Handles |-> {}]
    /\ hproc = [h \in Handles |-> 1]
    /\ data = [h \in Handles |-> [t \in Threads |-> NoCache]]
    /\ itercache = [p \in Pids |-> None]
    /\ it = [t \in Threads |-> IdleIter]
    /\ everFalse = [h \in Handles |-> FALSE]
    /\ deadRets = [h \in Handles |-> {}]

NextProcs ==
    \/ \E pid \in Pids : OsExit(pid) \/ OsReap(pid)
    \/ OsSpawn(1)
    \/ Tick
    \/ \E procs \in ProcLists, timeout \in Timeouts, hascb \in BOOLEAN :
         CallWaitProcs(procs, timeout, hascb)
    \/ ReturnWaitProcs
    \/ wait_procs
    \/ is_running(1)
    \/ wait(1)
    \/ WaitWake(1)

SpecProcs == InitProcs /\ [][NextProcs]_vars

(***************************************************************************)
(* Properties of is_running and wait under Spec.                           *)
(***************************************************************************)
NoOsCall(f) == ~f.oscall /\ ~f.blocked /\ f.nreap = 0

\* C1: once is_running() has returned False on a handle, no call of is_running()
\* on that handle entered afterwards returns True, whatever the threads and the
\* operating system (exit, reaping, reuse of the pid) do in between.
MonotonicDeath ==
    \A t \in Threads :
        (th[t].irpc = "done" /\ th[t].irret = "True") => ~th[t].irprior

\* C1 witness: after is_running() returned False the pid was recycled by a running
\* process, and a later is_running() has again returned False.
MonotonicDeathWitness ==
    \E t \in Threads :
        /\ th[t].op = "is_running" /\ th[t].irpc = "done"
        /\ th[t].irret = "False" /\ th[t].irprior
        /\ os[1].st = "running" /\ os[1].ct = 2

ZeroTimeoutWait ==
    \A t \in Threads :
        (/\ th[t].op = "wait" /\ th[t].wpc = "done"
         /\ th[t].timeout = Some(0) /\ th[t].irret = "True") =>
            /\ th[t].nreap = 1 /\ ~th[t].blocked
            /\ th[t].lastpoll = "running" => th[t].wkind = "TimeoutExpired"
            /\ th[t].lastpoll = "reaped" =>
                  /\ th[t].wkind = "return"
                  /\ th[t].wval # None /\ th[t].wval = hexit[th[t].h]
                  /\ hdead[th[t].h]

\* C4 witness: a zero-timeout wait() on a running child has raised TimeoutExpired.
ZeroTimeoutWaitWitness ==
    \E t \in Threads :
        /\ th[t].op = "wait" /\ th[t].wpc = "done" /\ th[t].timeout = Some(0)
        /\ th[t].lastpoll = "running" /\ th[t].wkind = "TimeoutExpired"
        /\ os[1].st = "running" /\ os[1].child

(***************************************************************************)
(* Process.oneshot and the accessors cached by CachedByProcess.  In a      *)
(* frame, scopes lists the with-blocks of the thread on the handle, the    *)
(* outermost first: TRUE for the entry that created the cache.             *)
(***************************************************************************)
\* _get_pid_stat_fields(pid): the fields read, or the error raised
get_pid_stat_fields(pid) ==
    IF ~Exists(pid) THEN [err |-> "ProcessLookupError", val |-> <<"", 0>>]
    ELSE IF os[pid].denied THEN [err |-> "PermissionError", val |-> <<"", 0>>]
    ELSE [err |-> "", val |-> <<os[pid].st, os[pid].ct>>]

\* mutant: every entry makes a fresh cache map and owns it
OneshotEnterFresh(t, h) ==
    LET f == IF th[t].op = "idle" THEN [IdleFrame EXCEPT !.op = "scope", !.h = h]
             ELSE th[t]
        owning == TRUE IN
    /\ th[t].op \in {"idle", "scope"}
    /\ th[t].op = "scope" => th[t].h = h
    /\ Len(th[t].scopes) < MaxDepth
    /\ data' = IF owning THEN [data EXCEPT ![h][t] = [on |-> TRUE, stat |-> None]]
               ELSE data
    /\ th' = [th EXCEPT ![t] = [f EXCEPT !.scopes = Append(@, owning),
                                         !.sc_nested = IF f.scopes = <<>> THEN @ ELSE "in"]]
    /\ UNCHANGED <<osvars, hvars, calls, wp, hret, hproc, iterv, histvars>>

\* with proc.oneshot(): the generator up to its yield
OneshotEnter(t, h) ==
    LET f == IF th[t].op = "idle" THEN [IdleFrame EXCEPT !.op = "scope", !.h = h]
             ELSE th[t]
        owning == ~data[h][t].on IN
    /\ th[t].op \in {"idle", "scope"}
    /\ th[t].op = "scope" => th[t].h = h
    /\ Len(th[t].scopes) < MaxDepth
    /\ data' = IF owning THEN [data EXCEPT ![h][t] = [on |-> TRUE, stat |-> None]]
               ELSE data
    /\ th' = [th EXCEPT ![t] = [f EXCEPT !.scopes = Append(@, owning),
                                         !.sc_nested = IF f.scopes = <<>> THEN @ ELSE "in"]]
    /\ UNCHANGED <<osvars, hvars, calls, wp, hret, hproc, iterv, histvars>>

\* the frame once an accessor has returned v, having run its probe or not
Returned(f, v, probed) ==
    IF f.op = "scope"
    THEN [f EXCEPT !.sc_calls = Bump(@),
                   !.sc_probes = IF probed THEN Bump(@) ELSE @,
                   !.sc_first = IF f.sc_calls = 0 THEN Some(v) ELSE @,
                   !.sc_same = @ /\ (f.sc_calls = 0 \/ f.sc_first = Some(v))]
    ELSE [f EXCEPT !.after = IF probed THEN "probed" ELSE "cached"]

\* mutant: the cache map is an attribute of the handle, shared by the threads
CachedCallShared(t, h) ==
    LET f == [th[t] EXCEPT !.h = h]
        c == data[h][1]
        r == get_pid_stat_fields(hpid[h]) IN
    /\ f.op \in {"idle", "scope"}
    /\ th[t].op = "scope" => th[t].h = h
    /\ IF c.on /\ c.stat # None
       THEN /\ th' = [th EXCEPT ![t] = Returned(f, TheVal(c.stat), FALSE)]
            /\ UNCHANGED data
       ELSE IF r.err # ""
       THEN /\ th' = [th EXCEPT ![t] =
                        IF f.op = "scope"
                        THEN [f EXCEPT !.op = "raising", !.sc_probes = Bump(@)]
                        ELSE [f EXCEPT !.after = "raised"]]
            /\ UNCHANGED data
       ELSE /\ th' = [th EXCEPT ![t] = Returned(f, r.val, TRUE)]
            /\ data' = IF c.on THEN [data EXCEPT ![h][1].stat = Some(r.val)]
                       ELSE data
    /\ UNCHANGED <<osvars, hvars, calls, wp, hret, hproc, iterv, histvars>>

\* CachedByProcess.__call__ for _get_proc_stat_fields(proc); an error of the
\* probe leaves the accessor and, inside a with-block, the block
CachedCall(t, h) ==
    LET f == [th[t] EXCEPT !.h = h]
        c == data[h][t]
        r == get_pid_stat_fields(hpid[h]) IN
    /\ f.op \in {"idle", "scope"}
    /\ th[t].op = "scope" => th[t].h = h
    /\ IF c.on /\ c.stat # None
       THEN /\ th' = [th EXCEPT ![t] = Returned(f, TheVal(c.stat), FALSE)]
            /\ UNCHANGED data
       ELSE IF r.err # ""
       THEN /\ th' = [th EXCEPT ![t] =
                        IF f.op = "scope"
                        THEN [f EXCEPT !.op = "raising", !.sc_probes = Bump(@)]
                        ELSE [f EXCEPT !.after = "raised"]]
            /\ UNCHANGED data
       ELSE /\ th' = [th EXCEPT ![t] = Returned(f, r.val, TRUE)]
            /\ data' = IF c.on THEN [data EXCEPT ![h][t].stat = Some(r.val)]
                       ELSE data
    /\ UNCHANGED <<osvars, hvars, calls, wp, hret, hproc, iterv, histvars>>

\* the frame once its innermost with-block is left
Leave(f, how) ==
    LET rest == SubSeq(f.scopes, 1, Len(f.scopes) - 1) IN
    IF rest = <<>>
    THEN [IdleFrame EXCEPT !.h = f.h, !.lastexit = how]
    ELSE [f EXCEPT !.scopes = rest, !.sc_nested = IF Len(rest) = 1 THEN "left" ELSE @]

\* the body ends: the generator resumes after its yield
OneshotExit(t) ==
    LET f == th[t]
        h == f.h IN
    /\ f.op = "scope"
    /\ data' = IF f.scopes[Len(f.scopes)] THEN [data EXCEPT ![h][t] = NoCache]
               ELSE data
    /\ th' = [th EXCEPT ![t] = Leave(f, "normal")]
    /\ UNCHANGED <<osvars, hvars, calls, wp, hret, hproc, iterv, histvars>>

\* the code of the body raises an error of its own
BodyRaises(t) ==
    /\ th[t].op = "scope"
    /\ th' = [th EXCEPT ![t].op = "raising"]
    /\ UNCHANGED <<osvars, hvars, ctl, histvars>>

\* the error is thrown into the generator at its yield, which has no
\* try/finally around it: the generator ends there and the error goes on
OneshotThrow(t) ==
    /\ th[t].op = "raising"
    /\ th' = [th EXCEPT ![t] = Leave(@, "error")]
    /\ UNCHANGED <<osvars, hvars, ctl, histvars>>

oneshot(t) ==
    \/ OneshotEnter(t, 1)
    \/ OneshotExit(t)
    \/ OneshotThrow(t)

(***************************************************************************)
(* Handles made for one pid while its processes come and go.               *)
(***************************************************************************)
InitIdentity ==
    /\ worksOnZombies \in BOOLEAN
    /\ pid0 = "ProcessLookupError"
    /\ now = 0
    /\ \E c \in BOOLEAN :
         os = [p \in Pids |-> IF p = 1
                 THEN [st |-> "running", ct |-> 1, child |-> c, wstatus |-> 0,
                       denied |-> FALSE]
                 ELSE NoProcess]
    /\ gen = [p \in Pids |-> IF p = 1 THEN 1 ELSE 0]
    /\ hpid = [h \in Handles |-> 0]
    /\ hrct = [h \in Handles |-> 0]
    /\ hdead = [h \in Handles |-> FALSE]
    /\ hexit = [h \in Handles |-> None]
    /\ lock = [h \in Handles |-> 0]
    /\ elock = [h \in Handles |-> 0]
    /\ th = [t \in Threads |-> IdleFrame]
    /\ calls = 0
    /\ wp = IdleProcs
    /\ hret = [h \in Handles |-> {}]
    /\ hproc = [h \in Handles |-> 0]
    /\ data = [h \in Handles |-> [t \in Threads |-> NoCache]]
    /\ itercache = [p \in Pids |-> None]
    /\ it = [t \in Threads |-> IdleIter]
    /\ everFalse = [h \in Handles |-> FALSE]
    /\ deadRets = [h \in Handles |-> {}]

NextIdentity ==
    \/ OsExit(1)
    \/ OsReap(1)
    \/ OsSpawn(1)
    \/ \E h \in Handles : ProcessInit(h, 1)
    \/ \E t \in Threads :
         \/ \E h \in Handles : hproc[h] # 0 /\ CallIsRunning(t, h)
         \/ ReturnIsRunning(t)
         \/ is_running(t)

SpecIdentity == InitIdentity /\ [][NextIdentity]_vars

(***************************************************************************)
(* _process_iter_impl: threads enumerating the process table through the   *)
(* shared cache of handles, while handles are also opened by pid.          *)
(***************************************************************************)
\* the parent of a process: this program, or somebody else
PpidOf(pid) == IF os[pid].child THEN "self" ELSE "other"

\* the ppids arguments: none, the program's own pid (children()), another
PpidSets == {None, Some({"self"}), Some({"other"})}

\* which process holds each pid: its creation timestamp, 0 for a free pid
Census == [p \in Pids |-> IF Exists(p) THEN os[p].ct ELSE 0]

\* Process._create(pid, raw_create_time)
ProcessCreate(pid, raw_create_time) == [pid |-> pid, rct |-> raw_create_time]

\* the consumer asks for the first element: the generator starts and
\* iter_pid_raw_create_time lists the pids
IterStart(t, ppids, skip_perm_error) ==
    /\ it[t].pc = "idle"
    /\ calls < MaxPasses
    /\ calls' = calls + 1
    /\ it' = [u \in Threads |->
                IF u = t
                THEN [it[t] EXCEPT !.pc = "read", !.ppids = ppids,
                          !.skip_perm_error = skip_perm_error,
                          !.todo = {p \in Pids : Exists(p)},
                          !.opened = {h \in Handles : hproc[h] # 0},
                          !.census = Census,
                          !.alone = \A v \in Threads \ {t} :
                                       it[v].pc \in {"idle", "done"}]
                ELSE IF it[u].pc \in {"idle", "done"} THEN it[u]
                ELSE [it[u] EXCEPT !.alone = FALSE]]
    /\ UNCHANGED <<osvars, hvars, th, wp, hret, hproc, data, itercache, histvars>>

\* iter_pid_raw_create_time reads the next pid's record: a vanished pid is
\* passed over, an unreadable one is passed over or raises AccessDenied, one
\* whose parent is not asked for is passed over, another is handed on
IterRead(t) ==
    LET f == it[t] IN
    /\ f.pc = "read"
    /\ \E pid \in f.todo :
         LET r == pid_raw_create_time(pid)
             g == [f EXCEPT !.todo = f.todo \ {pid}]
         IN it' = [it EXCEPT ![t] =
              IF r.err = "ProcessLookupError" THEN g
              ELSE IF r.err = "PermissionError"
                   THEN IF f.skip_perm_error THEN g
                        ELSE [g EXCEPT !.pc = "done", !.out = "AccessDenied",
                                       !.todo = {}, !.seen_pids = {},
                                       !.alone = FALSE]
              ELSE IF f.ppids # None /\ PpidOf(pid) \notin TheVal(f.ppids) THEN g
              ELSE [g EXCEPT !.pc = "check", !.pid = pid,
                             !.raw_create_time = r.val,
                             !.seen_pids = f.seen_pids \cup {pid}]]
    /\ UNCHANGED <<osvars, hvars, th, calls, wp, hret, hproc, data, itercache,
                   histvars>>

\* mutant: a cached handle is yielded whatever its timestamp
IterCheckAnyCached(t) ==
    LET f == it[t]
        c == itercache[f.pid]
    IN
    /\ f.pc = "check"
    /\ it' = [it EXCEPT ![t] =
                IF c = None THEN [f EXCEPT !.pc = "create", !.stale = FALSE]
                ELSE [f EXCEPT !.pc = "yield", !.yielded[f.pid] = c, !.pid = 0,
                               !.raw_create_time = 0]]
    /\ UNCHANGED <<osvars, hvars, th, calls, wp, hret, hproc, data, itercache,
                   histvars>>

\* the cache is looked up under its lock; a handle with the reported
\* timestamp is yielded, another is stale
IterCheck(t) ==
    LET f == it[t]
        c == itercache[f.pid]
    IN
    /\ f.pc = "check"
    /\ it' = [it EXCEPT ![t] =
                IF c = None THEN [f EXCEPT !.pc = "create", !.stale = FALSE]
                ELSE IF TheVal(c).rct = f.raw_create_time
                     THEN [f EXCEPT !.pc = "yield", !.yielded[f.pid] = c,
                                    !.pid = 0, !.raw_create_time = 0]
                     ELSE [f EXCEPT !.pc = "pop", !.stale = TRUE]]
    /\ UNCHANGED <<osvars, hvars, th, calls, wp, hret, hproc, data, itercache,
                   histvars>>

\* mutant: the entry is removed with del, which raises KeyError if it is gone
IterPopDel(t) ==
    LET f == it[t] IN
    /\ f.pc = "pop"
    /\ itercache' = [itercache EXCEPT ![f.pid] = None]
    /\ it' = [it EXCEPT ![t] =
                IF itercache[f.pid] = None
                THEN [f EXCEPT !.pc = "done", !.out = "KeyError", !.todo = {},
                               !.seen_pids = {}, !.alone = FALSE]
                ELSE [f EXCEPT !.pc = "create", !.popped = "present"]]
    /\ UNCHANGED <<osvars, hvars, th, calls, wp, hret, hproc, data, histvars>>

\* _process_iter_cache.pop(pid, None)
IterPop(t) ==
    LET f == it[t] IN
    /\ f.pc = "pop"
    /\ itercache' = [itercache EXCEPT ![f.pid] = None]
    /\ it' = [it EXCEPT ![t].pc = "create",
                        ![t].popped = IF itercache[f.pid] = None THEN "absent"
                                      ELSE "present"]
    /\ UNCHANGED <<osvars, hvars, th, calls, wp, hret, hproc, data, histvars>>

\* mutant: on a cache miss the handle is made without the reported timestamp
IterCreateUnstamped(t) ==
    LET f == it[t]
        proc == ProcessCreate(f.pid, IF f.stale THEN f.raw_create_time ELSE 0)
    IN
    /\ f.pc = "create"
    /\ itercache' = [itercache EXCEPT ![f.pid] = Some(proc)]
    /\ it' = [it EXCEPT ![t] = [f EXCEPT !.pc = "yield",
                                         !.yielded[f.pid] = Some(proc),
                                         !.pid = 0, !.raw_create_time = 0,
                                         !.stale = FALSE, !.popped = "none"]]
    /\ UNCHANGED <<osvars, hvars, th, calls, wp, hret, hproc, data, histvars>>

\* a handle is made from the reported pair, put into the cache (whatever is
\* there by now) and yielded
IterCreate(t) ==
    LET f == it[t]
        proc == ProcessCreate(f.pid, f.raw_create_time)
    IN
    /\ f.pc = "create"
    /\ itercache' = [itercache EXCEPT ![f.pid] = Some(proc)]
    /\ it' = [it EXCEPT ![t] = [f EXCEPT !.pc = "yield",
                                         !.yielded[f.pid] = Some(proc),
                                         !.pid = 0, !.raw_create_time = 0,
                                         !.stale = FALSE, !.popped = "none"]]
    /\ UNCHANGED <<osvars, hvars, th, calls, wp, hret, hproc, data, histvars>>

\* the consumer asks for the next element
IterResume(t) ==
    /\ it[t].pc = "yield"
    /\ it' = [it EXCEPT ![t].pc = "read"]
    /\ UNCHANGED <<osvars, hvars, th, calls, wp, hret, hproc, data, itercache,
                   histvars>>

\* mutant: closing the generator runs the clean-up of the cache
IterStopEvicts(t) ==
    /\ it[t].pc = "yield"
    /\ itercache' = [p \in Pids |-> IF p \in it[t].seen_pids THEN itercache[p]
                                    ELSE None]
    /\ it' = [it EXCEPT ![t].pc = "done", ![t].out = "stopped", ![t].todo = {},
                        ![t].seen_pids = {}, ![t].alone = FALSE]
    /\ UNCHANGED <<osvars, hvars, th, calls, wp, hret, hproc, data, histvars>>

\* the consumer stops iterating: the generator is closed at its yield
IterStop(t) ==
    /\ it[t].pc = "yield"
    /\ it' = [it EXCEPT ![t].pc = "done", ![t].out = "stopped", ![t].todo = {},
                        ![t].seen_pids = {}, ![t].alone = FALSE]
    /\ UNCHANGED <<osvars, hvars, th, calls, wp, hret, hproc, data, itercache,
                   histvars>>

\* the listing is exhausted: the cached pids that were not seen are bad
IterCleanup(t) ==
    LET f == it[t] IN
    /\ f.pc = "read"
    /\ f.todo = {}
    /\ it' = [it EXCEPT ![t].pc = "evict",
                        ![t].bad_pids = {p \in Pids : itercache[p] # None}
                                            \ f.seen_pids]
    /\ UNCHANGED <<osvars, hvars, th, calls, wp, hret, hproc, data, itercache,
                   histvars>>

\* mutant: the generator ends without popping the bad pids
IterEvictNothing(t) ==
    LET f == it[t] IN
    /\ f.pc = "evict"
    /\ itercache' = itercache
    /\ it' = [it EXCEPT ![t].pc = "done", ![t].out = "exhausted",
                        ![t].seen_pids = {}, ![t].bad_pids = {}]
    /\ UNCHANGED <<osvars, hvars, th, calls, wp, hret, hproc, data, histvars>>

\* the bad pids are popped under the lock and the generator ends
IterEvict(t) ==
    LET f == it[t] IN
    /\ f.pc = "evict"
    /\ itercache' = [p \in Pids |-> IF p \in f.bad_pids THEN None ELSE itercache[p]]
    /\ it' = [it EXCEPT ![t].pc = "done", ![t].out = "exhausted",
                        ![t].seen_pids = {}, ![t].bad_pids = {}]
    /\ UNCHANGED <<osvars, hvars, th, calls, wp, hret, hproc, data, histvars>>

\* the consumer is through with the pass; what an exhausted pass yielded
\* stays with it for the next one
IterReturn(t) ==
    LET f == it[t] IN
    /\ f.pc = "done"
    /\ it' = [it EXCEPT ![t] =
                IF f.out = "exhausted"
                THEN [IdleIter EXCEPT !.prev = Some(f.yielded),
                                      !.prevcensus = f.census]
                ELSE IdleIter]
    /\ UNCHANGED <<osvars, hvars, th, calls, wp, hret, hproc, data, itercache,
                   histvars>>

process_iter_impl(t) ==
    \/ IterRead(t)
    \/ IterCheck(t)
    \/ IterPop(t)
    \/ IterCreate(t)
    \/ IterResume(t)
    \/ IterCleanup(t)
    \/ IterEvict(t)

InitIter ==
    /\ worksOnZombies \in BOOLEAN
    /\ pid0 = "ProcessLookupError"
    /\ now = 0
    /\ \E c, d \in BOOLEAN :
         os = [p \in Pids |-> IF p = 1
                 THEN [st |-> "running", ct |-> 1, child |-> c, wstatus |-> 0,
                       denied |-> FALSE]
                 ELSE [st |-> "running", ct |-> 1, child |-> FALSE, wstatus |-> 0,
                       denied |-> d]]
    /\ gen = [p \in Pids |-> 1]
    /\ hpid = [h \in Handles |-> 0]
    /\ hrct = [h \in Handles |-> 0]
    /\ hdead = [h \in Handles |-> FALSE]
    /\ hexit = [h \in Handles |-> None]
    /\ lock = [h \in Handles |-> 0]
    /\ elock = [h \in Handles |-> 0]
    /\ th = [t \in Threads |-> IdleFrame]
    /\ calls = 0
    /\ wp = IdleProcs
    /\ hret = [h \in Handles |-> {}]
    /\ hproc = [h \in Handles |-> 0]
    /\ data = [h \in Handles |-> [t \in Threads |-> NoCache]]
    /\ itercache = [p \in Pids |-> None]
    /\ it = [t \in Threads |-> IdleIter]
    /\ everFalse = [h \in Handles |-> FALSE]
    /\ deadRets = [h \in Handles |-> {}]

\* two threads enumerate: everything, or the children of the program
NextIter ==
    \/ OsExit(1)
    \/ OsReap(1)
    \/ OsSpawn(1)
    \/ \E t \in Threads :
         \/ \E ppids \in {None, Some({"self"})}, skip_perm_error \in BOOLEAN :
              IterStart(t, ppids, skip_perm_error)
         \/ process_iter_impl(t)
         \/ IterStop(t)
         \/ IterReturn(t)

SpecIter == InitIter /\ [][NextIter]_vars

\* the module-level cache as an earlier pass over all processes, consumed to
\* exhaustion with skip_perm_error, left it: one handle per readable process
InitIterWarm ==
    /\ worksOnZombies \in BOOLEAN
    /\ pid0 = "ProcessLookupError"
    /\ now = 0
    /\ \E c, d \in BOOLEAN :
         os = [p \in Pids |-> IF p = 1
                 THEN [st |-> "running", ct |-> 1, child |-> c, wstatus |-> 0,
                       denied |-> FALSE]
                 ELSE [st |-> "running", ct |-> 1, child |-> FALSE, wstatus |-> 0,
                       denied |-> d]]
    /\ gen = [p \in Pids |-> 1]
    /\ hpid = [h \in Handles |-> 0]
    /\ hrct = [h \in Handles |-> 0]
    /\ hdead = [h \in Handles |-> FALSE]
    /\ hexit = [h \in Handles |-> None]
    /\ lock = [h \in Handles |-> 0]
    /\ elock = [h \in Handles |-> 0]
    /\ th = [t \in Threads |-> IdleFrame]
    /\ calls = 0
    /\ wp = IdleProcs
    /\ hret = [h \in Handles |-> {}]
    /\ hproc = [h \in Handles |-> 0]
    /\ data = [h \in Handles |-> [t \in Threads |-> NoCache]]
    /\ itercache = [p \in Pids |->
                      IF pid_raw_create_time(p).err = ""
                      THEN Some(ProcessCreate(p, pid_raw_create_time(p).val))
                      ELSE None]
    /\ it = [t \in Threads |-> IdleIter]
    /\ everFalse = [h \in Handles |-> FALSE]
    /\ deadRets = [h \in Handles |-> {}]

\* two threads enumerate all processes while pid 1 may be recycled
NextIterWarm ==
    \/ OsExit(1)
    \/ OsReap(1)
    \/ OsSpawn(1)
    \/ \E t \in Threads :
         \/ \E skip_perm_error \in BOOLEAN : IterStart(t, None, skip_perm_error)
         \/ process_iter_impl(t)
         \/ IterStop(t)
         \/ IterReturn(t)

SpecIterWarm == InitIterWarm /\ [][NextIterWarm]_vars

\* one thread opens a handle by pid and enumerates, restricted to any parent
NextRoundTrip ==
    \/ OsExit(1)
    \/ OsReap(1)
    \/ OsSpawn(1)
    \/ ProcessInit(1, 1)
    \/ \E ppids \in PpidSets, skip_perm_error \in BOOLEAN :
         IterStart(1, ppids, skip_perm_error)
    \/ process_iter_impl(1)
    \/ IterStop(1)
    \/ IterReturn(1)

SpecRoundTrip == InitIter /\ [][NextRoundTrip]_vars

(***************************************************************************)
(* Threads signalling and awaiting the process of one handle.              *)
(***************************************************************************)
NextSignal ==
    \/ OsExit(1)
    \/ OsReap(1)
    \/ OsSpawn(1)
    \/ \E t \in Threads :
         \/ \E sig \in Signals : CallSendSignal(t, 1, sig)
         \/ SendSignalKill(t)
         \/ ReturnSendSignal(t)
         \/ CallWait(t, 1, None)
         \/ ReturnWait(t)
         \/ is_running(t)
         \/ WaitAfterIsRunning(t)
         \/ WaitDeadLock(t)
         \/ WaitDeadReturn(t)
         \/ WaitBlockAcquire(t)
         \/ WaitBlockWaitpid(t)
         \/ WaitBlockSetDead(t)
         \/ WaitBlockSetExit(t)
         \/ WaitNotify(t)
         \/ WaitSelect(t)
         \/ WaitPoll(t)

SpecSignal == Init /\ [][NextSignal]_vars

(***************************************************************************)
(* One thread waiting, without timeout, for a process that is not a child, *)
(* while the pid may go to another process. The thread is scheduled again  *)
(* and again: each of its steps that stays possible is taken.              *)
(***************************************************************************)
InitReuse == Init /\ ~os[1].child

\* the steps of the waiting thread
Progress(t) ==
    \/ is_running(t)
    \/ WaitAfterIsRunning(t)
    \/ WaitDeadLock(t)
    \/ WaitDeadReturn(t)
    \/ WaitBlockAcquire(t)
    \/ WaitBlockWaitpid(t)
    \/ WaitNotify(t)
    \/ WaitSelect(t)
    \/ WaitPoll(t)

NextReuse ==
    \/ OsExit(1)
    \/ OsReap(1)
    \/ OsSpawn(1)
    \/ CallWait(1, 1, None)
    \/ ReturnWait(1)
    \/ Progress(1)

SpecReuse == InitReuse /\ [][NextReuse]_vars /\ WF_vars(Progress(1))

(***************************************************************************)
(* Threads asking whether pids exist, on every platform.                   *)
(***************************************************************************)
\* what pid_raw_create_time does for pid 0: Linux has no /proc/0, the BSDs
\* and macOS report the kernel's process, and a sysctl may be refused
Pid0Reports == {"ProcessLookupError", "PermissionError", ""}

\* the pids asked about: a negative one, 0, and the two of the process table
PidsAsked == {0 - 1, 0, 1, 2}

InitExists ==
    /\ worksOnZombies \in BOOLEAN
    /\ pid0 \in Pid0Reports
    /\ now = 0
    /\ os = [p \in Pids |-> IF p = 1
                THEN [st |-> "running", ct |-> 1, child |-> FALSE, wstatus |-> 0,
                      denied |-> FALSE]
                ELSE NoProcess]
    /\ gen = [p \in Pids |-> IF p = 1 THEN 1 ELSE 0]
    /\ hpid = [h \in Handles |-> 1]
    /\ hrct = [h \in Handles |-> 1]
    /\ hdead = [h \in Handles |-> FALSE]
    /\ hexit = [h \in Handles |-> None]
    /\ lock = [h \in Handles |-> 0]
    /\ elock = [h \in Handles |-> 0]
    /\ th = [t \in Threads |-> IdleFrame]
    /\ calls = 0
    /\ wp = IdleProcs
    /\ hret = [h \in Handles |-> {}]
    /\ hproc = [h \in Handles |-> 1]
    /\ data = [h \in Handles |-> [t \in Threads |-> NoCache]]
    /\ itercache = [p \in Pids |-> None]
    /\ it = [t \in Threads |-> IdleIter]
    /\ everFalse = [h \in Handles |-> FALSE]
    /\ deadRets = [h \in Handles |-> {}]

NextExists ==
    \/ \E pid \in Pids : OsExit(pid) \/ OsReap(pid) \/ OsSpawn(pid)
    \/ \E t \in Threads :
         \/ \E pid \in PidsAsked : CallPidExists(t, pid)
         \/ ReturnPidExists(t)

SpecExists == InitExists /\ [][NextExists]_vars

(***************************************************************************)
(* Threads entering scopes on one handle and calling a cached accessor.    *)
(***************************************************************************)
NextOneshot ==
    \/ OsExit(1)
    \/ OsReap(1)
    \/ OsSpawn(1)
    \/ \E t \in Threads :
         \/ oneshot(t)
         \/ CachedCall(t, 1)
         \/ BodyRaises(t)

\* the accessor is the one of Linux, where the timestamp probe works on zombies;
\* the process is not a child of the program
InitOneshot == Init /\ worksOnZombies /\ ~os[1].child

SpecOneshot == InitOneshot /\ [][NextOneshot]_vars

\* the platform's relation tells the two timestamps apart whenever they differ
Strict(time1, time2) == worksOnZombies \/ (time1 # 0 /\ time2 # 0)

\* C2: where the platform compares timestamps strictly, or neither timestamp
\* is 0: two handles of one pid made for different processes and holding
\* different timestamps are unequal, and is_running() that was reported a
\* timestamp different from the one its handle holds returns False.
ReuseDetected ==
    /\ \A a, b \in Handles :
         (/\ hproc[a] # 0 /\ hproc[b] # 0 /\ hpid[a] = hpid[b]
          /\ hproc[a] < hproc[b] /\ hrct[a] # hrct[b]
          /\ Strict(hrct[a], hrct[b]))
            => ~EqH(a, b) /\ ~EqH(b, a)
    /\ \A t \in Threads :
         (/\ th[t].op = "is_running" /\ th[t].irpc = "done"
          /\ th[t].irseen # None /\ TheVal(th[t].irseen) # hrct[th[t].h]
          /\ Strict(hrct[th[t].h], TheVal(th[t].irseen)))
            => th[t].irret = "False"

ReuseDetectedWitness ==
    /\ ~worksOnZombies
    /\ hproc[1] = 1 /\ hrct[1] = 1 /\ hproc[2] = 2 /\ hrct[2] = 2
    /\ ~EqH(1, 2)
    /\ \E t \in Threads :
         /\ th[t].op = "is_running" /\ th[t].irpc = "done" /\ th[t].h = 1
         /\ th[t].irseen = Some(2) /\ th[t].irret = "False"

\* C2 as stated, for every pair of different timestamps on every platform
ReuseDetectedAlways ==
    /\ \A a, b \in Handles :
         (/\ hproc[a] # 0 /\ hproc[b] # 0 /\ hpid[a] = hpid[b]
          /\ hproc[a] < hproc[b] /\ hrct[a] # hrct[b])
            => ~EqH(a, b) /\ ~EqH(b, a)
    /\ \A t \in Threads :
         (/\ th[t].op = "is_running" /\ th[t].irpc = "done"
          /\ th[t].irseen # None /\ TheVal(th[t].irseen) # hrct[th[t].h])
            => th[t].irret = "False"

(***************************************************************************)
(* wait_procs.                                                             *)
(***************************************************************************)
\* the elements of a list
Range(seq) == {seq[k] : k \in 1..Len(seq)}

\* no element occurs twice in the list
NoDup(seq) == \A j, k \in 1..Len(seq) : seq[j] = seq[k] => j = k

\* the process the handle was opened on is still in the process table
SameProcess(h) == Exists(hpid[h]) /\ os[hpid[h]].ct = hrct[h]

\* C5: neither wait() nor wait_procs() ends with ChildProcessError, whatever the
\* timeout and whether the process never was a child or was reaped by somebody
\* else; a wait() that has caught the error treats the handle as a non-child
\* from then on.
NoChildProcessError ==
    /\ wp.out # "ChildProcessError"
    /\ \A t \in Threads :
         /\ th[t].wkind # "ChildProcessError"
         /\ (th[t].lastpoll = "ECHILD" /\ th[t].wpc \in {"notify", "select", "poll", "sleep"})
                => ~th[t].is_child

NoChildProcessErrorWitness ==
    /\ wp.pc = "done" /\ wp.out = "return"
    /\ wp.timeout # None /\ TheVal(wp.timeout) > 0
    /\ wp.nonchildren # {}
    /\ Len(wp.gone) = 2
    /\ th[1].lastpoll = "ECHILD" /\ th[1].wkind = "return"

\* C6: wait_procs() never ends with TimeoutExpired; when it returns, each handle
\* passed in is in exactly one of gone and alive, and the processes of the
\* handles in gone are no longer there.
PartialResults ==
    wp.pc = "done" =>
        /\ wp.out # "TimeoutExpired"
        /\ wp.out = "return" =>
              /\ NoDup(wp.gone \o wp.alive)
              /\ Range(wp.gone \o wp.alive) = Range(wp.procs)
              /\ \A h \in Range(wp.gone) : ~SameProcess(h)

PartialResultsWitness ==
    /\ wp.pc = "done" /\ wp.out = "return"
    /\ wp.timeout # None /\ TheVal(wp.timeout) > 0
    /\ Len(wp.gone) = 1 /\ Len(wp.alive) = 1
    /\ th[1].wkind = "TimeoutExpired"

\* C7: with a callback, the calls of the callback are, in order, the gone list:
\* one call per handle in gone, none for a handle in alive.
CallbackPerResolved ==
    /\ wp.hascb => wp.cb = wp.gone
    /\ ~wp.hascb => wp.cb = <<>>
    /\ NoDup(wp.cb)
    /\ Range(wp.cb) \cap Range(wp.alive) = {}

CallbackPerResolvedWitness ==
    /\ wp.pc = "done" /\ wp.hascb
    /\ wp.procs = <<1, 2>> /\ wp.cb = <<2, 1>>
    /\ th[1].wkind = "return"

\* C8: a wait_procs() with a positive timeout is over no later than its entry
\* time plus the timeout plus one sleep interval.
OneDeadline ==
    (wp.pc = "done" /\ wp.timeout # None /\ TheVal(wp.timeout) > 0)
        => now <= wp.entry + TheVal(wp.timeout) + Interval

(***************************************************************************)
(* Oneshot scopes.                                                         *)
(***************************************************************************)
\* C9: when an accessor has been called twice or more in one scope, all the
\* calls returned the same value and the probe ran exactly once; an accessor
\* call made after the scope is left runs the probe.
OneshotIdempotent ==
    \A t \in Threads :
        /\ th[t].sc_calls >= 2 => th[t].sc_same /\ th[t].sc_probes = 1
        /\ (th[t].op = "idle" /\ th[t].lastexit # "none") => th[t].after # "cached"

\* C10: once an error has left the outermost scope, the thread has no cache for
\* the handle and the next accessor call runs the probe; the outermost of the
\* scopes a thread is in created the cache.
ErrorExitDiscards ==
    \A t \in Threads :
        /\ (th[t].op = "idle" /\ th[t].lastexit = "error")
              => ~data[th[t].h][t].on /\ th[t].after \in {"none", "probed", "raised"}
        /\ th[t].scopes # <<>> => th[t].scopes[1]

\* C11: an entry made while the thread is in a scope owns nothing, and no step
\* that leaves the thread in a scope (a nested entry and its exit among them)
\* replaces, clears or removes the cache map: what is cached stays cached.
NestedKeepsCache ==
    [][\A t \in Threads :
         LET h == th[t].h IN
         (th[t].scopes # <<>> /\ th'[t].scopes # <<>>) =>
            /\ data[h][t].on /\ data'[h][t].on
            /\ data[h][t].stat # None => data'[h][t].stat = data[h][t].stat
            /\ \A k \in 2..Len(th'[t].scopes) : ~th'[t].scopes[k]]_vars

NestedKeepsCacheWitness ==
    \E t \in Threads :
        /\ th[t].op = "scope" /\ th[t].scopes = <<TRUE>> /\ th[t].sc_nested = "left"
        /\ data[th[t].h][t].stat # None
        /\ th[t].sc_calls = 2 /\ th[t].sc_probes = 1

\* C12: the cache of a thread for a handle changes only in steps of that thread,
\* and an accessor call that runs no probe is answered from the cache of the
\* calling thread; so one thread's scope never serves, receives or removes
\* what another thread caches.
CachePerThread ==
    [][\A u \in Threads :
         LET h == th'[u].h
             noprobe == \/ th'[u].after = "cached"
                        \/ /\ th'[u].sc_calls > th[u].sc_calls
                           /\ th'[u].sc_probes = th[u].sc_probes IN
         /\ \A g \in Handles : data'[g][u] # data[g][u] => th'[u] # th[u]
         /\ (th'[u] # th[u] /\ noprobe)
               => data[h][u].on /\ data[h][u].stat # None]_vars

CachePerThreadWitness ==
    /\ th[1].op = "scope" /\ th[1].sc_calls = 1
    /\ data[1][1].stat = Some(<<"running", 1>>)
    /\ os[1].st = "zombie"
    /\ th[2].op = "idle" /\ th[2].after = "probed" /\ ~data[1][2].on

(***************************************************************************)
(* Equality of handles.                                                    *)
(***************************************************************************)
\* C15: two constructed handles holding the same pid and timestamp are equal,
\* whatever their dead flags and exit codes; equal handles have one hash.
EqualityByIdentity ==
    \A a, b \in Handles :
        (hproc[a] # 0 /\ hproc[b] # 0) =>
            /\ (hpid[a] = hpid[b] /\ hrct[a] = hrct[b]) => EqH(a, b)
            /\ EqH(a, b) => Hash(a) = Hash(b)

EqualityByIdentityWitness ==
    /\ hproc[1] # 0 /\ hproc[2] # 0
    /\ hpid[1] = hpid[2] /\ hrct[1] = hrct[2]
    /\ hdead[1] /\ ~hdead[2]
    /\ EqH(1, 2)

(***************************************************************************)
(* Errors of the identity probe.                                           *)
(***************************************************************************)
\* C18: when the probe of is_running() meets a permission error, the call ends
\* with AccessDenied, the dead flag and the exit code of the handle stay as
\* they are and the lock is free again; every call that does not find the
\* handle dead runs the probe.
DeniedIsNotDead ==
    [][\A t \in Threads :
         LET h == th[t].h IN
         /\ (/\ th[t].irpc = "probe" /\ th'[t].irpc # "probe"
             /\ pid_raw_create_time(hpid[h]).err = "PermissionError")
               => /\ th'[t].irpc = "done" /\ th'[t].irret = "AccessDenied"
                  /\ hdead' = hdead /\ hexit' = hexit
                  /\ lock'[h] = 0
         /\ (th[t].irpc # "done" /\ th'[t].irpc = "done" /\ ~th'[t].founddead)
               => th'[t].oscall]_vars

DeniedIsNotDeadWitness ==
    \E t \in Threads :
        /\ th[t].op = "is_running" /\ th[t].irpc = "done"
        /\ th[t].irret = "AccessDenied" /\ ~th[t].founddead
        /\ ~hdead[th[t].h] /\ hexit[th[t].h] = None
        /\ os[1].denied /\ calls >= 2

(***************************************************************************)
(* Threads racing on one handle.                                           *)
(***************************************************************************)
\* two threads wait without timeout for one child, which nobody else reaps
InitRace == Init /\ os[1].child

NextRace ==
    \/ OsExit(1)
    \/ OsSpawn(1)
    \/ \E t \in Threads :
         \/ CallWait(t, 1, None)
         \/ ReturnWait(t)
         \/ is_running(t)
         \/ WaitAfterIsRunning(t)
         \/ WaitDeadLock(t)
         \/ WaitDeadReturn(t)
         \/ WaitBlockAcquire(t)
         \/ WaitBlockWaitpid(t)
         \/ WaitBlockSetDead(t)
         \/ WaitBlockSetExit(t)
         \/ WaitNotify(t)
         \/ WaitSelect(t)
         \/ WaitPoll(t)

SpecRace == InitRace /\ [][NextRace]_vars

DeadIsTerminal ==
    [][\A h \in Handles : hdead[h] => hdead'[h]]_vars


(***************************************************************************)
(* Properties of pid_exists under SpecExists.                              *)
(***************************************************************************)
\* C16: pid_exists returns False for pid 0 and for every negative pid,
\* whatever the platform reports for pid 0.
NonPositiveNeverExists ==
    \A t \in Threads :
        (th[t].op = "pid_exists" /\ th[t].pe_pid <= 0) => ~th[t].pe_ret

\* C17: for a positive pid, pid_exists returns True when the probe fails with
\* a permission error, False when the probe says there is no such process and
\* True when the probe succeeds; the call always ends with a verdict.
DeniedMeansExists ==
    \A t \in Threads :
        (th[t].op = "pid_exists" /\ th[t].pe_pid > 0) =>
            /\ th[t].pe_err \in {"PermissionError", "ProcessLookupError", ""}
            /\ th[t].pe_err = "PermissionError" => th[t].pe_ret
            /\ th[t].pe_err = "ProcessLookupError" => ~th[t].pe_ret
            /\ th[t].pe_err = "" => th[t].pe_ret

\* two callers hold verdicts: one about a process that refuses the signal,
\* one about a pid nobody holds
DeniedMeansExistsWitness ==
    /\ th[1].op = "pid_exists" /\ th[1].pe_pid = 1
    /\ th[1].pe_err = "PermissionError" /\ th[1].pe_ret
    /\ th[2].op = "pid_exists" /\ th[2].pe_pid = 2
    /\ th[2].pe_err = "ProcessLookupError" /\ ~th[2].pe_ret

(***************************************************************************)
(* Properties of the enumeration under SpecIter and SpecRoundTrip.         *)
(***************************************************************************)
\* the handle a pass has yielded for a pid
YieldedFor(f, p) == TheVal(f.yielded[p])

\* C13: when a thread has enumerated to exhaustion twice, every pid that was
\* yielded in both passes and is held by one and the same process from the
\* start of the first pass on (no creation, no destruction) has in the second
\* pass a handle equal, by pid and creation timestamp, to the first one.
StableIdentity ==
    \A t \in Threads :
        LET f == it[t] IN
        (f.pc = "done" /\ f.out = "exhausted" /\ f.prev # None) =>
            \A p \in Pids :
                LET first == TheVal(f.prev)[p] IN
                (first # None /\ f.yielded[p] # None
                   /\ f.prevcensus[p] = Census[p]) =>
                    ProcessEq(TheVal(first).pid, TheVal(first).rct,
                              YieldedFor(f, p).pid, YieldedFor(f, p).rct)

\* the cache has churned between the passes: where a zombie reports no
\* timestamp, the second pass has replaced the handle made while the process
\* ran by one without a timestamp, and the two are equal
StableIdentityWitness ==
    \E t \in Threads :
        LET f == it[t] IN
        /\ f.pc = "done" /\ f.out = "exhausted" /\ f.prev # None
        /\ TheVal(f.prev)[1] = Some(ProcessCreate(1, 1))
        /\ f.yielded[1] = Some(ProcessCreate(1, 0))
        /\ f.prevcensus = Census
        /\ TheVal(f.prev)[2] # None /\ f.yielded[2] = TheVal(f.prev)[2]

\* C14: a handle opened by Process(pid) before an enumeration starts is equal
\* to the handle the enumeration yields for that pid, as long as the process
\* has not exited; and an exhausted enumeration that is unrestricted or
\* restricted to the parent of the process does yield one.
RoundTrip ==
    \A t \in Threads : \A h \in it[t].opened :
        LET f == it[t]
            p == hpid[h]
        IN
        (os[p].st = "running" /\ os[p].ct = hproc[h]) =>
            /\ f.yielded[p] # None =>
                  ProcessEq(hpid[h], hrct[h], YieldedFor(f, p).pid,
                            YieldedFor(f, p).rct)
            /\ (f.pc = "done" /\ f.out = "exhausted"
                  /\ (f.ppids = None \/ PpidOf(p) \in TheVal(f.ppids))) =>
                  f.yielded[p] # None

\* the pid had been recycled since the cache learnt of it: the enumeration,
\* restricted to the parent of the new process, has replaced the stale handle
\* and yields one for the process the opened handle is about
RoundTripWitness ==
    LET f == it[1] IN
    /\ 1 \in f.opened /\ hrct[1] = 2 /\ hproc[1] = 2
    /\ os[1].st = "running" /\ os[1].ct = 2
    /\ f.prev # None /\ TheVal(f.prev)[1] = Some(ProcessCreate(1, 1))
    /\ f.pc = "done" /\ f.out = "exhausted"
    /\ f.ppids = Some({"other"})
    /\ f.yielded[1] = Some(ProcessCreate(1, 2))

(***************************************************************************)
(* What a returning wait leaves on the handle.                             *)
(***************************************************************************)
\* C21: whenever wait returns normally, the dead flag of the handle is set at
\* the moment of return.
ReturnMeansDead ==
    [][\A t \in Threads :
          (th[t].op = "wait" /\ th[t].wpc # "done"
             /\ th'[t].wpc = "done" /\ th'[t].wkind = "return") =>
              hdead'[th[t].h]]_vars

\* C22: when the single reap of a zero-timeout wait reports "not my child",
\* the call raises TimeoutExpired only if the process still exists, and
\* otherwise returns with the handle resolved as dead.
ZeroTimeoutRecheck ==
    [][\A t \in Threads :
          LET h == th[t].h IN
          (th[t].op = "wait" /\ th[t].wpc = "zero" /\ th'[t].wpc = "done"
             /\ th'[t].lastpoll = "ECHILD") =>
              IF pid_exists(hpid[h])'
              THEN th'[t].wkind = "TimeoutExpired"
              ELSE th'[t].wkind = "return" /\ hdead'[h]]_vars

(***************************************************************************)
(* Properties of send_signal under SpecSignal.                             *)
(***************************************************************************)
\* C27: the step of send_signal that delivers the signal leaves the dead flag
\* and the exit code as they were, and when the delivery fails with "no such
\* process" the call ends with NoSuchProcess; the dead flag changes only in
\* the assignment of the identity re-probe or after a reap that succeeded.
SignalLeavesFlag ==
    [][/\ \A t \in Threads :
            (th[t].op = "send_signal" /\ th[t].ss_pc = "check"
               /\ th'[t].ss_pc = "done") =>
                /\ hdead' = hdead
                /\ hexit' = hexit
                /\ th'[t].ss_err = "ProcessLookupError" =>
                       th'[t].ss_out = "NoSuchProcess"
       /\ hdead' # hdead =>
            \E t \in Threads :
                \/ th[t].irpc = "assign" /\ th'[t].irpc = "ret"
                \/ th[t].wpc = "blk_dead" /\ th[t].lastpoll = "reaped"
                \/ th[t].wpc = "poll" /\ th'[t].lastpoll = "reaped"
                     /\ os[hpid[th[t].h]].st = "zombie"]_vars

\* the process was reaped between the check and the signal: the call ended
\* with NoSuchProcess and the handle is not marked dead
SignalLeavesFlagWitness ==
    \E t \in Threads :
        /\ th[t].op = "send_signal" /\ th[t].ss_pc = "done"
        /\ th[t].irret = "True"
        /\ th[t].ss_err = "ProcessLookupError" /\ th[t].ss_out = "NoSuchProcess"
        /\ ~hdead[1] /\ hexit[1] = None
        /\ ~Exists(1)

(***************************************************************************)
(* Process.__eq__ as a relation on the handles a program holds.            *)
(***************************************************************************)
\* the handles in existence: opened by pid, kept in the cache, yielded by the
\* running pass or by the one before
KnownHandles ==
    {ProcessCreate(hpid[h], hrct[h]) : h \in {g \in Handles : hproc[g] # 0}}
      \cup UNION {itercache[p] : p \in Pids}
      \cup UNION {it[t].yielded[p] : t \in Threads, p \in Pids}
      \cup UNION {TheVal(it[t].prev)[p] :
                    t \in {u \in Threads : it[u].prev # None}, p \in Pids}

\* a == b for two handles
HandleEq(a, b) == ProcessEq(a.pid, a.rct, b.pid, b.rct)

\* C29: handle equality is reflexive and symmetric on every platform, equal
\* handles have equal hashes, and a == b and b == c give a == c where the
\* platform compares timestamps strictly or b has a timestamp other than 0.
EqualityNearEquivalence ==
    \A a, b, c \in KnownHandles :
        /\ HandleEq(a, a)
        /\ HandleEq(a, b) => HandleEq(b, a) /\ a.pid = b.pid
        /\ (HandleEq(a, b) /\ HandleEq(b, c) /\ (worksOnZombies \/ b.rct # 0)) =>
               HandleEq(a, c)

\* three handles of one pid where a zombie reports no timestamp: one made
\* while the first process ran, one made of its zombie, one of the next
\* process at the pid
EqualityNearEquivalenceWitness ==
    /\ ~worksOnZombies
    /\ {ProcessCreate(1, 0), ProcessCreate(1, 1), ProcessCreate(1, 2)}
           \subseteq KnownHandles

\* C29 as stated: handle equality is reflexive, symmetric and transitive on
\* every platform.
EqualityEquivalence ==
    \A a, b, c \in KnownHandles :
        /\ HandleEq(a, a)
        /\ HandleEq(a, b) => HandleEq(b, a)
        /\ (HandleEq(a, b) /\ HandleEq(b, c)) => HandleEq(a, c)

(***************************************************************************)
(* Waiting by pid existence while pids are reused, under SpecReuse.        *)
(***************************************************************************)
\* the process the handle was opened for is gone from the process table
ProcessGone(h) == ~(Exists(hpid[h]) /\ os[hpid[h]].ct = hproc[h])

\* C28: once the up-front check of a wait() without timeout has passed and
\* the process, not a child, has terminated and been reaped, the call
\* eventually ends, also when the pid goes to a new process between polls.
ReuseSafeWait ==
    (th[1].op = "wait" /\ th[1].wpc \notin {"isrun", "done"} /\ ProcessGone(1))
        ~> (th[1].op # "wait" \/ th[1].wpc = "done")

(***************************************************************************)
(* The cache of handles during and after a pass, under SpecIter.           *)
(***************************************************************************)
\* C23: when the cache holds a handle for the reported pid whose timestamp
\* matches the reported one under the platform's relation, the cached handle
\* is yielded and the cache stays as it is: nothing is popped or made.
CacheHitYieldsCached ==
    [][\A t \in Threads :
          LET f == it[t]
              c == itercache[f.pid]
          IN
          (f.pc = "check" /\ it'[t].pc # "check" /\ c # None
             /\ raw_create_times_eq(TheVal(c).rct, f.raw_create_time)) =>
              /\ it'[t].pc = "yield"
              /\ it'[t].yielded[f.pid] = c
              /\ itercache' = itercache]_vars

\* C25: the eviction at the end of a pass removes only entries whose process
\* is gone: the entry of a process that still exists survives.
EvictOnlyGone ==
    [][\A t \in Threads : \A p \in Pids :
          (it[t].pc = "evict" /\ it'[t].pc = "done"
             /\ itercache[p] # None /\ itercache'[p] = None) =>
              ~(Exists(p) /\ os[p].ct = TheVal(itercache[p]).rct)]_vars

\* C26: when a pass that no other pass overlapped is exhausted, the cache
\* holds right after the eviction only pids the pass was given by the
\* Identity Source, each with a handle of that pid.
PassLeavesSeen ==
    [][\A t \in Threads :
          (it[t].pc = "evict" /\ it'[t].pc = "done" /\ it[t].alone) =>
              \A p \in Pids :
                  itercache'[p] # None =>
                      /\ p \in it[t].seen_pids
                      /\ TheVal(itercache'[p]).pid = p]_vars

\* a thread's second pass, overlapped by none, has ended: the process it had
\* yielded for pid 1 before is no longer reported and its entry is evicted,
\* the entry of pid 2 stays
PassLeavesSeenWitness ==
    \E t \in Threads :
        LET f == it[t] IN
        /\ f.pc = "done" /\ f.out = "exhausted" /\ f.alone
        /\ f.prev # None /\ TheVal(f.prev)[1] # None
        /\ f.yielded[1] = None /\ f.yielded[2] # None
        /\ itercache[1] = None /\ itercache[2] = f.yielded[2]

\* C30: a pass that ends because the consumer stops or because strict mode
\* raises AccessDenied leaves the cache as it is; an entry leaves the cache
\* without a successor only in the eviction of an exhausted pass or in the
\* pop of a stale entry, which is followed by the insertion of the new handle.
EvictionOnlyAtExhaustion ==
    [][/\ \A t \in Threads :
            (it[t].pc # "done" /\ it'[t].pc = "done"
               /\ it'[t].out \in {"stopped", "AccessDenied"}) =>
                itercache' = itercache
       /\ \A p \in Pids :
            (itercache[p] # None /\ itercache'[p] = None) =>
                \E t \in Threads :
                    \/ it[t].pc = "evict" /\ it'[t].out = "exhausted"
                    \/ it[t].pc = "pop" /\ it[t].pid = p
                         /\ it'[t].pc = "create"]_vars

\* a strict pass has raised AccessDenied at pid 2 after it yielded the handle
\* of pid 1; both the entry it confirmed and the entry of the pid it never
\* got to see (cached while the process could be read) are still there
EvictionOnlyAtExhaustionWitness ==
    \E t \in Threads :
        LET f == it[t] IN
        /\ f.pc = "done" /\ f.out \in {"stopped", "AccessDenied"}
        /\ f.yielded[1] # None /\ f.yielded[2] = None
        /\ itercache[1] = f.yielded[1]
        /\ itercache[2] # None
        /\ Exists(2)

\* C24: in an enumeration, a cached handle whose timestamp differs from the
\* one reported for its pid is removed, and a new handle with the reported
\* pid and timestamp is stored under the pid and yielded; the removal raises
\* nothing, also when another thread's enumeration removed the entry first.
StaleEntryReplaced ==
    [][\A t \in Threads :
          LET f == it[t]
              g == it'[t]
          IN
          /\ (/\ f.pc = "check" /\ g.pc # "check"
              /\ itercache[f.pid] # None
              /\ TheVal(itercache[f.pid]).rct # f.raw_create_time) =>
                 g.pc = "pop" /\ g.pid = f.pid
          /\ (f.pc = "pop" /\ g.pc # "pop") =>
                 /\ g.pc = "create" /\ g.out = "none"
                 /\ g.pid = f.pid /\ g.raw_create_time = f.raw_create_time
                 /\ itercache'[f.pid] = None
          /\ (f.pc = "create" /\ f.stale /\ g.pc # "create") =>
                 /\ g.pc = "yield"
                 /\ itercache'[f.pid] # None
                 /\ TheVal(itercache'[f.pid]).pid = f.pid
                 /\ TheVal(itercache'[f.pid]).rct = f.raw_create_time
                 /\ g.yielded[f.pid] = itercache'[f.pid]]_vars

\* two enumerations found the same stale entry; this thread popped it after
\* the other one had, and is about to insert the new handle
StaleEntryReplacedWitness ==
    \E t \in Threads :
        /\ it[t].pc = "create" /\ it[t].stale /\ it[t].popped = "absent"
        /\ itercache[it[t].pid] = None

============================================================================
